---- MODULE Spec2Model ----
(***************************************************************************)
(* Model of the noargs token consumption engine: the raw token store, the  *)
(* four extraction algorithms (ArgSpec, FlagSpec, OptSpec, CmdSpec), the   *)
(* extraction log and the help-related metadata.                           *)
(*                                                                         *)
(* A string is a sequence of one-character strings, so that prefix tests,  *)
(* slicing and character removal are computed and not assumed.             *)
(* An Option<T> is a set with at most one element: {} is None, {x} is      *)
(* Some(x).  The raw store is a function from 0..n-1 (the indices of the   *)
(* Rust Vec) to slots [value |-> Option<String>].                          *)
(***************************************************************************)
EXTENDS Integers, Sequences, FiniteSets, TLC

\* result is the value returned by the check that ended the run, if any;
\* cli is the CliArgs of args.rs in the runs that use it
VARIABLES argv, raw_args, log, metadata, env, calls, result, cli

vars == <<argv, raw_args, log, metadata, env, calls, result, cli>>

(***************************************************************************)
(* Bounds of the model.                                                    *)
(***************************************************************************)
\* Number of take() calls in one run.
MaxTakes == 3

\* Length of the generated argument lists (program name excluded).
MaxArgs == 1

\* Number of take() and take_help() calls in one run with take_help.
MaxHelpTakes == 2

\* Length of the argument lists of the runs with combinators (program name
\* excluded), and the number of take() calls before the combinator.
MaxUseArgs == 1

MaxUseTakes == 1

\* Number of take() calls before the help is built.
MaxRenderTakes == 3

\* Number of take() calls before the help with docs is built.
MaxDocTakes == 2

\* Length of the generated argument lists given to CliArgs (program name
\* excluded), and the number of calls on one CliArgs.
MaxCliArgs == 2

MaxCliTakes == 3

\* Length of the generated argument lists of the runs on clusters of short
\* flags (program name excluded).
MaxClusterArgs == 2

\* the tokens of a command line of the bare-name specification
MaxValueArgs == 2

\* the take() calls of a run of the bare-name specification
MaxValueTakes == 3

(***************************************************************************)
(* Option and string helpers.                                              *)
(***************************************************************************)
None == {}

Some(x) == {x}

is_some(o) == o # {}

unwrap(o) == CHOOSE x \in o : TRUE

\* str::starts_with
starts_with(s, p) == Len(s) >= Len(p) /\ SubSeq(s, 1, Len(p)) = p

\* the rest of s after a prefix of length n (&s[n..])
slice_from(s, n) == SubSeq(s, n + 1, Len(s))

\* str::strip_prefix
strip_prefix(s, p) == IF starts_with(s, p) THEN Some(slice_from(s, Len(p))) ELSE None

\* String::remove at the 1-based position i
remove_char(s, i) == SubSeq(s, 1, i - 1) \o SubSeq(s, i + 1, Len(s))

Dash == <<"-">>

DashDash == <<"-", "-">>

(***************************************************************************)
(* The raw token store.                                                    *)
(***************************************************************************)
\* A consumed slot (RawArg { value: None }).
Consumed == [value |-> None]

\* RawArgs::new: one slot per process argument, the program name taken out.
RawArgsNew(args) ==
    [i \in 0..(Len(args) - 1) |->
        IF i = 0 THEN Consumed ELSE [value |-> Some(args[i + 1])]]

\* RawArgs::range_mut: the indices min_index..=max_index, a missing bound is open.
range_mut(args, min_index, max_index) ==
    {i \in DOMAIN args :
        /\ (is_some(min_index) => i >= unwrap(min_index))
        /\ (is_some(max_index) => i <= unwrap(max_index))}

\* the first index of a set of indices, in iteration order
first_index(S) == CHOOSE i \in S : \A j \in S : i <= j

\* variant of consume: the slot is removed from the vector and the rest shifts
consume_shift(args, i) ==
    [j \in 0..(Cardinality(DOMAIN args) - 2) |-> IF j < i THEN args[j] ELSE args[j + 1]]

\* raw_arg.value = None / raw_arg.value.take()
consume(args, i) == [args EXCEPT ![i] = Consumed]

\* variant of with_record: an absent result is not recorded
with_record_skip_absent(l, taken) ==
    IF taken.variant = "None" THEN l ELSE Append(l, taken)

\* RawArgs::with_record_*: the result of the call is pushed to the log.
with_record(l, taken) == Append(l, taken)

\* std::env::var(name).ok() for an optional variable name
env_var(e, name) == IF is_some(name) THEN e[unwrap(name)] ELSE None

(***************************************************************************)
(* Extraction results (Taken).  index is an Option<usize>.                 *)
(***************************************************************************)
Taken(kind, variant, spec, index, value) ==
    [kind |-> kind, variant |-> variant, spec |-> spec, index |-> index, value |-> value]

\* what a take() returns: the result and the store it leaves
Outcome(taken, args) == [taken |-> taken, args |-> args]


\* Opt::MissingValue { spec, long }
MissingValue(spec, long) ==
    [kind |-> "Opt", variant |-> "MissingValue", spec |-> spec, index |-> None,
     value |-> <<>>, long |-> long]

(***************************************************************************)
(* ArgSpec::take (positional argument).                                    *)
(***************************************************************************)
\* variant of ArgTake: the scan does not skip consumed slots
ArgTakeNoSkip(spec, args, md) ==
    LET range == range_mut(args, spec.min_index, spec.max_index)
    IN  IF ~md.help_mode /\ range # {}
        THEN Outcome(Taken("Arg", "Positional", spec, Some(first_index(range)),
                           IF is_some(args[first_index(range)].value)
                           THEN unwrap(args[first_index(range)].value) ELSE <<>>),
                     consume(args, first_index(range)))
        ELSE Outcome(Taken("Arg", IF is_some(spec.default) THEN "Default" ELSE "None",
                           spec, None, <<>>), args)

\* variant of ArgTake: a token that starts with a dash is not a positional
ArgTakeSkipDash(spec, args, md) ==
    LET present == {i \in range_mut(args, spec.min_index, spec.max_index) :
                        /\ is_some(args[i].value)
                        /\ ~starts_with(unwrap(args[i].value), Dash)}
    IN  IF ~md.help_mode /\ present # {}
        THEN Outcome(Taken("Arg", "Positional", spec, Some(first_index(present)),
                           unwrap(args[first_index(present)].value)),
                     consume(args, first_index(present)))
        ELSE Outcome(Taken("Arg",
                           IF is_some(spec.default) THEN "Default"
                           ELSE IF is_some(spec.example) /\ md.help_mode
                                THEN "Example" ELSE "None",
                           spec, None, <<>>), args)

\* variant of ArgTake: the example is a fallback outside help mode as well
ArgTakeExampleAlways(spec, args, md) ==
    LET present == {i \in range_mut(args, spec.min_index, spec.max_index) :
                       is_some(args[i].value)}
    IN  IF ~md.help_mode /\ present # {}
        THEN Outcome(Taken("Arg", "Positional", spec, Some(first_index(present)),
                           unwrap(args[first_index(present)].value)),
                     consume(args, first_index(present)))
        ELSE Outcome(Taken("Arg",
                           IF is_some(spec.default) THEN "Default"
                           ELSE IF is_some(spec.example) THEN "Example" ELSE "None",
                           spec, None, <<>>), args)

ArgTake(spec, args, md) ==
    IF md.help_mode
    THEN Outcome(Taken("Arg",
                       IF is_some(spec.default) THEN "Default"
                       ELSE IF is_some(spec.example) THEN "Example" ELSE "None",
                       spec, None, <<>>), args)
    ELSE LET present == {i \in range_mut(args, spec.min_index, spec.max_index) :
                            is_some(args[i].value)}
         IN  IF present # {}
             THEN LET index == first_index(present)
                  IN  Outcome(Taken("Arg", "Positional", spec, Some(index),
                                    unwrap(args[index].value)),
                              consume(args, index))
             ELSE Outcome(Taken("Arg",
                                IF is_some(spec.default) THEN "Default" ELSE "None",
                                spec, None, <<>>), args)

(***************************************************************************)
(* FlagSpec::take (named argument without value).                          *)
(***************************************************************************)
\* value.char_indices().skip(1).find_map(..): the 1-based positions after the
\* first character that hold the short name
short_positions(spec, value) ==
    {i \in 2..Len(value) : Some(value[i]) = spec.short}

\* variant of flag_match: a `--` token that is not the long name is searched
\* for the short name as well
flag_match_search_long(spec, slot) ==
    IF ~is_some(slot.value) THEN "no"
    ELSE LET value == unwrap(slot.value)
         IN  IF ~starts_with(value, Dash) THEN "no"
             ELSE IF starts_with(value, DashDash) /\ slice_from(value, 2) = spec.name
                  THEN "long"
                  ELSE IF short_positions(spec, value) # {} THEN "short" ELSE "no"

\* how one slot matches a flag: "long", "short" or "no"
flag_match(spec, slot) ==
    IF ~is_some(slot.value) THEN "no"
    ELSE LET value == unwrap(slot.value)
         IN  IF ~starts_with(value, Dash) THEN "no"
             ELSE IF starts_with(value, DashDash)
                  THEN IF slice_from(value, 2) = spec.name THEN "long" ELSE "no"
                  ELSE IF short_positions(spec, value) # {} THEN "short" ELSE "no"

\* variant of short_removed: a short match consumes the whole slot
short_removed_whole(spec, slot) == Consumed

\* variant of short_removed: the slot is kept when only the dash remains
short_removed_keep_dash(spec, slot) ==
    LET value == unwrap(slot.value)
    IN  [value |-> Some(remove_char(value, first_index(short_positions(spec, value))))]

\* the slot left by a short match: one character removed, the slot consumed
\* when only the dash remains
short_removed(spec, slot) ==
    LET value == unwrap(slot.value)
        rest  == remove_char(value, first_index(short_positions(spec, value)))
    IN  IF Len(rest) = 1 THEN Consumed ELSE [value |-> Some(rest)]

\* variant of FlagTake: the scan ignores min_index
FlagTakeNoMin(spec, args, e) ==
    LET matching == {i \in range_mut(args, None, spec.max_index) :
                        flag_match(spec, args[i]) # "no"}
    IN  IF matching # {}
        THEN LET index == first_index(matching)
             IN  IF flag_match(spec, args[index]) = "long"
                 THEN Outcome(Taken("Flag", "Long", spec, Some(index), <<>>),
                              consume(args, index))
                 ELSE Outcome(Taken("Flag", "Short", spec, Some(index), <<>>),
                              [args EXCEPT ![index] = short_removed(spec, args[index])])
        ELSE IF is_some(env_var(e, spec.env)) /\ unwrap(env_var(e, spec.env)) # <<>>
             THEN Outcome(Taken("Flag", "Env", spec, None, <<>>), args)
             ELSE Outcome(Taken("Flag", "None", spec, None, <<>>), args)

\* variant of FlagTake: the environment variable is looked at before the scan
FlagTakeEnvFirst(spec, args, e) ==
    LET matching == {i \in range_mut(args, spec.min_index, spec.max_index) :
                        flag_match(spec, args[i]) # "no"}
    IN  IF is_some(env_var(e, spec.env)) /\ unwrap(env_var(e, spec.env)) # <<>>
        THEN Outcome(Taken("Flag", "Env", spec, None, <<>>), args)
        ELSE IF matching # {}
        THEN LET index == first_index(matching)
             IN  IF flag_match(spec, args[index]) = "long"
                 THEN Outcome(Taken("Flag", "Long", spec, Some(index), <<>>),
                              consume(args, index))
                 ELSE Outcome(Taken("Flag", "Short", spec, Some(index), <<>>),
                              [args EXCEPT ![index] = short_removed(spec, args[index])])
        ELSE Outcome(Taken("Flag", "None", spec, None, <<>>), args)

\* variant of FlagTake: a long match leaves its slot in the store
FlagTakeKeepLong(spec, args, e) ==
    LET matching == {i \in range_mut(args, spec.min_index, spec.max_index) :
                        flag_match(spec, args[i]) # "no"}
    IN  IF matching # {}
        THEN LET index == first_index(matching)
             IN  IF flag_match(spec, args[index]) = "long"
                 THEN Outcome(Taken("Flag", "Long", spec, Some(index), <<>>), args)
                 ELSE Outcome(Taken("Flag", "Short", spec, Some(index), <<>>),
                              [args EXCEPT ![index] = short_removed(spec, args[index])])
        ELSE IF is_some(env_var(e, spec.env)) /\ unwrap(env_var(e, spec.env)) # <<>>
             THEN Outcome(Taken("Flag", "Env", spec, None, <<>>), args)
             ELSE Outcome(Taken("Flag", "None", spec, None, <<>>), args)

FlagTake(spec, args, e) ==
    LET matching == {i \in range_mut(args, spec.min_index, spec.max_index) :
                        flag_match(spec, args[i]) # "no"}
    IN  IF matching # {}
        THEN LET index == first_index(matching)
             IN  IF flag_match(spec, args[index]) = "long"
                 THEN Outcome(Taken("Flag", "Long", spec, Some(index), <<>>),
                              consume(args, index))
                 ELSE Outcome(Taken("Flag", "Short", spec, Some(index), <<>>),
                              [args EXCEPT ![index] = short_removed(spec, args[index])])
        ELSE IF is_some(env_var(e, spec.env)) /\ unwrap(env_var(e, spec.env)) # <<>>
             THEN Outcome(Taken("Flag", "Env", spec, None, <<>>), args)
             ELSE Outcome(Taken("Flag", "None", spec, None, <<>>), args)

\* variant of take_help_metadata: every present flag asks for the full help
take_help_metadata_full(spec, flag, md) ==
    IF flag.variant # "None"
    THEN [md EXCEPT !.help_mode = TRUE, !.help_flag_name = Some(spec.name),
                    !.full_help = TRUE]
    ELSE md

\* the metadata that FlagSpec::take_help leaves, flag being the result of take
take_help_metadata(spec, flag, md) ==
    IF flag.variant # "None"
    THEN [md EXCEPT !.help_mode = TRUE,
                    !.help_flag_name = Some(spec.name),
                    !.full_help = IF flag.variant = "Long" THEN TRUE ELSE md.full_help]
    ELSE md

(***************************************************************************)
(* CmdSpec::take (subcommand).                                             *)
(***************************************************************************)
\* variant of CmdTake: the matched slot is not consumed
CmdTakeKeep(spec, args) ==
    LET present == {i \in DOMAIN args : is_some(args[i].value)}
    IN  IF present # {} /\ unwrap(args[first_index(present)].value) = spec.name
        THEN Outcome(Taken("Cmd", "Some", spec, Some(first_index(present)), <<>>), args)
        ELSE Outcome(Taken("Cmd", "None", spec, None, <<>>), args)

\* variant of CmdTake: the scan goes on after a token that does not match
CmdTakeAnywhere(spec, args) ==
    LET matching == {i \in DOMAIN args :
                        is_some(args[i].value) /\ unwrap(args[i].value) = spec.name}
    IN  IF matching # {}
        THEN Outcome(Taken("Cmd", "Some", spec, Some(first_index(matching)), <<>>),
                     consume(args, first_index(matching)))
        ELSE Outcome(Taken("Cmd", "None", spec, None, <<>>), args)

\* variant of CmdTake: tokens that start with a dash do not stop the scan
CmdTakeSkipDash(spec, args) ==
    LET present == {i \in DOMAIN args :
                        /\ is_some(args[i].value)
                        /\ ~starts_with(unwrap(args[i].value), Dash)}
    IN  IF present # {} /\ unwrap(args[first_index(present)].value) = spec.name
        THEN Outcome(Taken("Cmd", "Some", spec, Some(first_index(present)), <<>>),
                     consume(args, first_index(present)))
        ELSE Outcome(Taken("Cmd", "None", spec, None, <<>>), args)

CmdTake(spec, args) ==
    LET present == {i \in DOMAIN args : is_some(args[i].value)}
    IN  IF present # {} /\ unwrap(args[first_index(present)].value) = spec.name
        THEN Outcome(Taken("Cmd", "Some", spec, Some(first_index(present)), <<>>),
                     consume(args, first_index(present)))
        ELSE Outcome(Taken("Cmd", "None", spec, None, <<>>), args)

(***************************************************************************)
(* OptSpec::take (named argument with value).                              *)
(***************************************************************************)
\* variant of opt_after_scan: a pending match at the end of the store is dropped
opt_after_scan_no_pending(spec, md, e, pending) ==
    IF is_some(env_var(e, spec.env)) /\ unwrap(env_var(e, spec.env)) # <<>>
    THEN Taken("Opt", "Env", spec, None, unwrap(env_var(e, spec.env)))
    ELSE IF is_some(spec.default)
    THEN Taken("Opt", "Default", spec, None, <<>>)
    ELSE Taken("Opt", "None", spec, None, <<>>)

\* the resolution when the scan ends without a returned match
opt_after_scan(spec, md, e, pending) ==
    IF is_some(pending)
    THEN MissingValue(spec, unwrap(pending).variant = "Long")
    ELSE IF is_some(env_var(e, spec.env)) /\ unwrap(env_var(e, spec.env)) # <<>>
    THEN Taken("Opt", "Env", spec, None, unwrap(env_var(e, spec.env)))
    ELSE IF is_some(spec.default)
    THEN Taken("Opt", "Default", spec, None, <<>>)
    ELSE IF is_some(spec.example) /\ md.help_mode
    THEN Taken("Opt", "Example", spec, None, <<>>)
    ELSE Taken("Opt", "None", spec, None, <<>>)

\* variant of pending_value: a token that starts with a dash is not taken as
\* the value, the option is reported without one
pending_value_no_dash(spec, args, index, pending) ==
    IF is_some(args[index].value) /\ ~starts_with(unwrap(args[index].value), Dash)
    THEN Outcome([pending EXCEPT !.value = unwrap(args[index].value)],
                 consume(args, index))
    ELSE Outcome(MissingValue(spec, pending.variant = "Long"), args)

\* variant of pending_value: a consumed value slot gives a match with an
\* empty value
pending_value_empty(spec, args, index, pending) ==
    IF is_some(args[index].value)
    THEN Outcome([pending EXCEPT !.value = unwrap(args[index].value)],
                 consume(args, index))
    ELSE Outcome(pending, args)

\* variant of pending_value: the value is looked for in the slots from index
\* on, the first present one gives it
pending_value_next_present(spec, args, index, pending) ==
    LET present == {i \in DOMAIN args : i >= index /\ is_some(args[i].value)}
    IN  IF present # {}
        THEN Outcome([pending EXCEPT !.value = unwrap(args[first_index(present)].value)],
                     consume(args, first_index(present)))
        ELSE Outcome(MissingValue(spec, pending.variant = "Long"), args)

\* the iteration that follows a bare name: the slot at index gives the value
pending_value(spec, args, index, pending) ==
    IF is_some(args[index].value)
    THEN Outcome([pending EXCEPT !.value = unwrap(args[index].value)],
                 consume(args, index))
    ELSE Outcome(MissingValue(spec, pending.variant = "Long"), args)

\* variant of concatenated_value: a leading '=' is split off, as after a long
\* name
concatenated_value_split(value_after_short) ==
    IF value_after_short[1] = "="
    THEN slice_from(value_after_short, 1)
    ELSE value_after_short

\* the value of `-fVALUE`: everything after the short name
concatenated_value(value_after_short) == value_after_short

\* the scan loop over all the slots, from the slot at index on; pending is
\* the match whose value is expected in the slot at index
RECURSIVE opt_scan(_, _, _, _, _, _)
opt_scan(spec, args, md, e, index, pending) ==
    IF index \notin DOMAIN args
    THEN Outcome(opt_after_scan(spec, md, e, pending), args)
    ELSE IF is_some(pending)
    THEN pending_value(spec, args, index, unwrap(pending))
    ELSE IF ~is_some(args[index].value)
    THEN opt_scan(spec, args, md, e, index + 1, None)
    ELSE LET value == unwrap(args[index].value)
         IN  IF ~starts_with(value, Dash)
             THEN opt_scan(spec, args, md, e, index + 1, None)
             ELSE IF starts_with(value, DashDash)
             THEN \* Long name option.
                  LET after_name == strip_prefix(slice_from(value, 2), spec.name)
                  IN  IF ~is_some(after_name)
                      THEN opt_scan(spec, args, md, e, index + 1, None)
                      ELSE IF unwrap(after_name) = <<>>
                      THEN opt_scan(spec, consume(args, index), md, e, index + 1,
                                    Some(Taken("Opt", "Long", spec, Some(index), <<>>)))
                      ELSE IF unwrap(after_name)[1] = "="
                      THEN Outcome(Taken("Opt", "Long", spec, Some(index),
                                         slice_from(unwrap(after_name), 1)),
                                   consume(args, index))
                      ELSE opt_scan(spec, args, md, e, index + 1, None)
             ELSE \* Short name option.
                  IF ~is_some(spec.short)
                  THEN opt_scan(spec, args, md, e, index + 1, None)
                  ELSE LET after_short ==
                               strip_prefix(slice_from(value, 1), <<unwrap(spec.short)>>)
                       IN  IF ~is_some(after_short)
                           THEN opt_scan(spec, args, md, e, index + 1, None)
                           ELSE IF unwrap(after_short) = <<>>
                           THEN opt_scan(spec, consume(args, index), md, e, index + 1,
                                         Some(Taken("Opt", "Short", spec, Some(index), <<>>)))
                           ELSE Outcome(Taken("Opt", "Short", spec, Some(index),
                                              concatenated_value(unwrap(after_short))),
                                        consume(args, index))

\* variant of OptTake: in help mode the scan is skipped and the resolution
\* after the scan is used
OptTakeHelpEnv(spec, args, md, e) ==
    IF md.help_mode
    THEN Outcome(opt_after_scan(spec, md, e, None), args)
    ELSE opt_scan(spec, args, md, e, 0, None)

\* variant of OptTake: help mode is not looked at
OptTakeNoHelp(spec, args, md, e) == opt_scan(spec, args, md, e, 0, None)

\* variant of OptTake: a name without a value is left in the store
OptTakeKeepName(spec, args, md, e) ==
    IF md.help_mode
    THEN Outcome(Taken("Opt",
                       IF is_some(spec.default) THEN "Default"
                       ELSE IF is_some(spec.example) THEN "Example" ELSE "None",
                       spec, None, <<>>), args)
    ELSE IF opt_scan(spec, args, md, e, 0, None).taken.variant = "MissingValue"
    THEN Outcome(opt_scan(spec, args, md, e, 0, None).taken, args)
    ELSE opt_scan(spec, args, md, e, 0, None)

OptTake(spec, args, md, e) ==
    IF md.help_mode
    THEN Outcome(Taken("Opt",
                       IF is_some(spec.default) THEN "Default"
                       ELSE IF is_some(spec.example) THEN "Example" ELSE "None",
                       spec, None, <<>>), args)
    ELSE opt_scan(spec, args, md, e, 0, None)

(***************************************************************************)
(* Result accessors.                                                       *)
(***************************************************************************)
\* Arg::is_present, Opt::is_present, Flag::is_present, Cmd::is_present
is_present(t) == t.variant # "None"

\* Opt::is_value_present
is_value_present(t) == t.variant \notin {"None", "MissingValue"}

\* variant of value_of: every variant answers with the text it carries
value_of_carried(t) == t.value

\* Arg::value, Opt::value
value_of(t) ==
    IF t.variant \in {"Positional", "Long", "Short", "Env"} THEN t.value
    ELSE IF t.variant = "Default" THEN unwrap(t.spec.default)
    ELSE IF t.variant = "Example" THEN unwrap(t.spec.example)
    ELSE <<>>

\* Arg::index, Opt::index, Flag::index, Cmd::index
index_of(t) == t.index

(***************************************************************************)
(* Error checks and RawArgs::finish.  A Result is a record with tag "Ok"   *)
(* or "Err".                                                               *)
(***************************************************************************)
\* Ok(())
Ok == [tag |-> "Ok", help |-> FALSE]

\* Ok(Some(help_text)); the text itself is not part of the value
OkHelp == [tag |-> "Ok", help |-> TRUE]

\* Err(Error::UnexpectedArg / UndefinedCommand / MissingCommand)
Err(error, raw_arg) == [tag |-> "Err", error |-> error, raw_arg |-> raw_arg]

\* RawArgs::remaining_args: the indices of the slots that are still present
remaining_args(args) == {i \in DOMAIN args : is_some(args[i].value)}

\* RawArgs::next_raw_arg_value: the text of the first present slot
next_raw_arg_value(args) ==
    IF remaining_args(args) = {} THEN None
    ELSE args[first_index(remaining_args(args))].value

\* variant of check_command_error: the last subcommand entry of the log is
\* looked at, wherever it is
check_command_error_any_entry(args, l) ==
    LET cmds == {k \in DOMAIN l : l[k].kind = "Cmd"}
    IN  IF cmds = {} THEN Ok
        ELSE IF is_present(l[CHOOSE k \in cmds : \A j \in cmds : j <= k]) THEN Ok
        ELSE IF remaining_args(args) # {}
             THEN Err("UndefinedCommand", next_raw_arg_value(args))
             ELSE Err("MissingCommand", None)

\* variant of check_command_error: a remaining token is left to the
\* unexpected-argument check
check_command_error_missing_only(args, l) ==
    IF l = <<>> \/ l[Len(l)].kind # "Cmd" THEN Ok
    ELSE IF is_present(l[Len(l)]) THEN Ok
    ELSE IF remaining_args(args) # {} THEN Ok
    ELSE Err("MissingCommand", None)

\* Error::check_command_error
check_command_error(args, l) ==
    IF l = <<>> \/ l[Len(l)].kind # "Cmd" THEN Ok
    ELSE IF is_present(l[Len(l)]) THEN Ok
    ELSE IF remaining_args(args) # {}
         THEN Err("UndefinedCommand",
                  args[first_index(remaining_args(args))].value)
         ELSE Err("MissingCommand", None)

\* variant of check_unexpected_arg: the error names the last present slot
check_unexpected_arg_last(args) ==
    IF remaining_args(args) # {}
    THEN Err("UnexpectedArg",
             args[CHOOSE i \in remaining_args(args) :
                      \A j \in remaining_args(args) : j <= i].value)
    ELSE Ok

\* variant of check_unexpected_arg: a token that starts with a dash is not
\* reported
check_unexpected_arg_skip_dash(args) ==
    LET left == {i \in remaining_args(args) : ~starts_with(unwrap(args[i].value), Dash)}
    IN  IF left # {} THEN Err("UnexpectedArg", args[first_index(left)].value) ELSE Ok

\* Error::check_unexpected_arg
check_unexpected_arg(args) ==
    IF is_some(next_raw_arg_value(args))
    THEN Err("UnexpectedArg", next_raw_arg_value(args))
    ELSE Ok

\* RawArgs::finish: the help text in help mode, else the first failing check
finish(args, l, md) ==
    IF md.help_mode THEN OkHelp
    ELSE IF check_command_error(args, l).tag = "Err" THEN check_command_error(args, l)
    ELSE IF check_unexpected_arg(args).tag = "Err" THEN check_unexpected_arg(args)
    ELSE Ok

(***************************************************************************)
(* The combinators of Arg and Opt.  The value that take() returned is the  *)
(* logged entry together with the metadata of the store at the time of the *)
(* take, which every variant but None and MissingValue carries.            *)
(***************************************************************************)
\* Arg::metadata, Opt::metadata
metadata_of(t, md) ==
    IF t.variant \in {"None", "MissingValue"} THEN None ELSE Some(md)

Digits == <<"0", "1", "2", "3", "4", "5", "6", "7", "8", "9">>

IsDigit(c) == \E d \in DOMAIN Digits : Digits[d] = c

digit_value(c) == (CHOOSE d \in DOMAIN Digits : Digits[d] = c) - 1

RECURSIVE parse_digits(_, _)
parse_digits(text, acc) ==
    IF text = <<>> THEN acc
    ELSE parse_digits(Tail(text), acc * 10 + digit_value(text[1]))

\* the Ok and the Err of the function that the calling code passes
ParseOk(v) == [tag |-> "Ok", value |-> v]

ParseErr(reason) == [tag |-> "Err", reason |-> reason]

\* str::parse::<usize>: decimal digits after an optional '+'
parse_usize(text) ==
    LET digits == IF text # <<>> /\ text[1] = "+" THEN Tail(text) ELSE text
    IN  IF text = <<>> THEN ParseErr("cannot parse integer from empty string")
        ELSE IF digits = <<>> \/ \E i \in DOMAIN digits : ~IsDigit(digits[i])
        THEN ParseErr("invalid digit found in string")
        ELSE ParseOk(parse_digits(digits, 0))

\* the functions of the calling code: |o| o.value().parse::<usize>() and
\* |o| o.value().parse::<String>()
Parsers == {"usize", "String"}

apply(f, text) == IF f = "usize" THEN parse_usize(text) ELSE ParseOk(text)

\* Error::MissingOpt, Error::InvalidOpt, Error::MissingArg, Error::InvalidArg
MissingOpt(opt, md) ==
    [tag |-> "Err", error |-> "MissingOpt", taken |-> opt,
     metadata |-> metadata_of(opt, md)]

InvalidOpt(opt, md, reason) ==
    [tag |-> "Err", error |-> "InvalidOpt", taken |-> opt,
     metadata |-> metadata_of(opt, md), reason |-> reason]

MissingArg(arg, md) ==
    [tag |-> "Err", error |-> "MissingArg", taken |-> arg,
     metadata |-> metadata_of(arg, md)]

InvalidArg(arg, md, reason) ==
    [tag |-> "Err", error |-> "InvalidArg", taken |-> arg,
     metadata |-> metadata_of(arg, md), reason |-> reason]

\* Result::transpose of an Option that is Some(r): Ok(v) becomes Ok(Some(v))
transpose_some(r) == IF r.tag = "Ok" THEN ParseOk(Some(r.value)) ELSE r

\* variant of then: a missing value is handed to the function
then_unchecked(opt, md, f) ==
    LET r == apply(f, value_of(opt))
    IN  IF r.tag = "Err" THEN InvalidOpt(opt, md, r.reason) ELSE r

\* Opt::then
then(opt, md, f) ==
    IF ~is_value_present(opt) THEN MissingOpt(opt, md)
    ELSE LET r == apply(f, value_of(opt))
         IN  IF r.tag = "Err" THEN InvalidOpt(opt, md, r.reason) ELSE r

\* Opt::present_and_then
present_and_then(opt, md, f) ==
    IF is_present(opt) THEN transpose_some(then(opt, md, f)) ELSE ParseOk(None)

\* Arg::parse_with
parse_with(arg, md, f) ==
    LET r == apply(f, value_of(arg))
    IN  IF r.tag = "Err" THEN InvalidArg(arg, md, r.reason) ELSE r

\* variant of parse: an absent argument is parsed as the empty text
parse_unchecked(arg, md, f) == parse_with(arg, md, f)

\* Arg::parse
parse(arg, md, f) ==
    IF ~is_present(arg) THEN MissingArg(arg, md) ELSE parse_with(arg, md, f)

\* Arg::parse_if_present
parse_if_present(arg, md, f) ==
    IF is_present(arg) THEN transpose_some(parse(arg, md, f)) ELSE ParseOk(None)

(***************************************************************************)
(* Error::to_string.  A text is a sequence of pieces: the characters of    *)
(* the names and tokens, and the literal parts of the message as they are  *)
(* written in the code.                                                    *)
(***************************************************************************)
\* Formatter::bold
bold(s, is_terminal) ==
    IF is_terminal THEN <<"\\x1B[1m">> \o s \o <<"\\x1B[0m">> ELSE s

\* format!("{:?}", value) of a text without characters to escape
debug(value) == <<"\"">> \o value \o <<"\"">>

\* the Error that a check of the store returns carries args.metadata()
store_error(r, md) ==
    IF r.tag = "Err"
    THEN [tag |-> "Err", error |-> r.error, raw_arg |-> r.raw_arg, metadata |-> Some(md)]
    ELSE r

\* Error::write_help_line
write_help_line(md, is_terminal) ==
    IF is_some(md.help_flag_name)
    THEN <<"\n\nTry '">> \o bold(DashDash \o unwrap(md.help_flag_name), is_terminal)
             \o <<"' for more information.">>
    ELSE <<>>

\* the message of Error::InvalidOpt starts with the name of its source
invalid_opt_name(opt, is_terminal) ==
    IF opt.variant = "Short" /\ is_some(opt.spec.short)
    THEN <<"argument '">> \o bold(<<"-", unwrap(opt.spec.short)>>, is_terminal) \o <<"'">>
    ELSE IF opt.variant = "Env" /\ is_some(opt.spec.env)
    THEN <<"environment variable '">> \o bold(<<unwrap(opt.spec.env)>>, is_terminal)
             \o <<"' for '">> \o bold(DashDash \o opt.spec.name, is_terminal) \o <<"'">>
    ELSE <<"argument '">> \o bold(DashDash \o opt.spec.name, is_terminal) \o <<"'">>

\* the message of each error kind, before the help line
error_message(e, is_terminal) ==
    IF e.error = "UnexpectedArg"
    THEN <<"unexpected argument '">> \o bold(unwrap(e.raw_arg), is_terminal)
             \o <<"' found">>
    ELSE IF e.error = "UndefinedCommand"
    THEN <<"'">> \o bold(unwrap(e.raw_arg), is_terminal) \o <<"' command is not defined">>
    ELSE IF e.error = "MissingCommand"
    THEN <<"command is not specified">>
    ELSE IF e.error = "InvalidArg"
    THEN <<"argument '">> \o bold(e.taken.spec.name, is_terminal)
             \o <<"' has an invalid value ">> \o debug(value_of(e.taken))
             \o <<": ", e.reason>>
    ELSE IF e.error = "MissingArg"
    THEN <<"missing argument '">> \o bold(e.taken.spec.name, is_terminal) \o <<"'">>
    ELSE IF e.error = "InvalidOpt"
    THEN invalid_opt_name(e.taken, is_terminal) \o <<" has an invalid value ">>
             \o debug(value_of(e.taken)) \o <<": ", e.reason>>
    ELSE \* MissingOpt
         IF e.taken.variant = "MissingValue" /\ is_some(e.taken.spec.short)
            /\ ~e.taken.long
         THEN <<"missing '">> \o bold(<<"-", unwrap(e.taken.spec.short)>>, is_terminal)
                  \o <<"' value">>
         ELSE IF e.taken.variant = "MissingValue"
         THEN <<"missing '">> \o bold(DashDash \o e.taken.spec.name, is_terminal)
                  \o <<"' value">>
         ELSE <<"missing '">> \o bold(DashDash \o e.taken.spec.name, is_terminal)
                  \o <<"' option">>

\* Error::to_string: the help line follows when the error carries metadata
to_string(e, is_terminal) ==
    IF is_some(e.metadata)
    THEN error_message(e, is_terminal) \o write_help_line(unwrap(e.metadata), is_terminal)
    ELSE error_message(e, is_terminal)

(***************************************************************************)
(* The help renderer (HelpBuilder).  The specs of the model have the       *)
(* default value type.  The help is kept as its parts: the description,    *)
(* the usage line, the example block and the entries of the three          *)
(* sections; the padding of the entry names to a common width is left out. *)
(***************************************************************************)
\* Metadata::app_name as the tests of help.rs print it
app_name == <<"<APP_NAME>">>

\* OptSpec::DEFAULT.ty
ty(spec) == <<"VALUE">>

\* Formatter::bold_underline
bold_underline(s, is_terminal) ==
    IF is_terminal THEN <<"\\x1B[1m", "\\x1B[4m">> \o s \o <<"\\x1B[0m">> ELSE s

\* the texts of a sequence, one after the other
RECURSIVE flatten(_)
flatten(texts) ==
    IF texts = <<>> THEN <<>> ELSE Head(texts) \o flatten(Tail(texts))

\* the entries of l at the positions of keep, from position i on
RECURSIVE select(_, _, _)
select(l, keep, i) ==
    IF i > Len(l) THEN <<>>
    ELSE (IF i \in keep THEN <<l[i]>> ELSE <<>>) \o select(l, keep, i + 1)

\* Taken::contains_index: the index range of the spec of the entry
contains_index(entry, index) ==
    IF entry.kind \in {"Arg", "Flag"}
    THEN /\ is_some(entry.spec.min_index) => unwrap(entry.spec.min_index) <= index
         /\ is_some(entry.spec.max_index) => index <= unwrap(entry.spec.max_index)
    ELSE TRUE

\* Taken::name
name_of(entry) == entry.spec.name

\* Taken::example: what the entry adds to the example line, as the words
\* before the value and the value
example_of(entry) ==
    IF entry.kind = "Arg" /\ is_some(entry.spec.example)
    THEN Some([words |-> <<>>, value |-> unwrap(entry.spec.example)])
    ELSE IF entry.kind = "Opt" /\ is_some(entry.spec.example)
    THEN Some([words |-> DashDash \o entry.spec.name \o <<" ">>,
               value |-> unwrap(entry.spec.example)])
    ELSE IF entry.kind = "Cmd" /\ is_present(entry)
    THEN Some([words |-> <<>>, value |-> entry.spec.name])
    ELSE None

\* the position in the log of the last subcommand entry that matched a token
last_matched_cmd(l) ==
    LET matched == {i \in DOMAIN l : l[i].kind = "Cmd" /\ is_some(index_of(l[i]))}
    IN  IF matched = {} THEN None
        ELSE Some(CHOOSE i \in matched : \A j \in matched : j <= i)

\* HelpBuilder::new: cmd_name
cmd_name(l) ==
    IF is_some(last_matched_cmd(l))
    THEN Some(l[unwrap(last_matched_cmd(l))].spec.name)
    ELSE None

\* variant of working_log: the entries logged before the subcommand are kept
working_log_keep_earlier(l) ==
    IF ~is_some(last_matched_cmd(l)) THEN l
    ELSE LET log_index == unwrap(last_matched_cmd(l))
             arg_index == unwrap(index_of(l[log_index]))
         IN  select(l, {i \in DOMAIN l : contains_index(l[i], arg_index + 1)}, 1)

\* HelpBuilder::new: the log that the builder works on
working_log(l) ==
    IF ~is_some(last_matched_cmd(l)) THEN l
    ELSE LET log_index == unwrap(last_matched_cmd(l))
             arg_index == unwrap(index_of(l[log_index]))
             retain(i) ==
                 /\ contains_index(l[i], arg_index + 1)
                 /\ l[i].kind \in {"Arg", "Cmd"} => i > log_index
         IN  select(l, {i \in DOMAIN l : retain(i)}, 1)

\* HelpBuilder::has_positional_args, has_subcommands, has_options, has_examples
has_positional_args(wl) == \E i \in DOMAIN wl : wl[i].kind = "Arg"

has_subcommands(wl) == \E i \in DOMAIN wl : wl[i].kind = "Cmd"

has_options(wl, include_required) ==
    \E i \in DOMAIN wl :
        \/ wl[i].kind = "Opt" /\ (include_required \/ ~is_some(wl[i].spec.example))
        \/ wl[i].kind = "Flag"

has_examples(wl) ==
    \E i \in DOMAIN wl : wl[i].kind \in {"Opt", "Arg"} /\ is_some(wl[i].spec.example)

\* HelpBuilder::entry_name
entry_name(entry, md, is_terminal) ==
    IF entry.kind = "Opt"
    THEN bold((IF is_some(entry.spec.short) /\ ~md.full_help
               THEN <<"-", unwrap(entry.spec.short), ", --">> \o entry.spec.name
               ELSE IF is_some(entry.spec.short)
               THEN <<"--">> \o entry.spec.name \o <<", -", unwrap(entry.spec.short)>>
               ELSE IF ~md.full_help
               THEN <<"    --">> \o entry.spec.name
               ELSE <<"--">> \o entry.spec.name)
              \o <<" <">> \o ty(entry.spec) \o <<">">>, is_terminal)
    ELSE IF entry.kind = "Flag"
    THEN bold(IF is_some(entry.spec.short) /\ ~md.full_help
              THEN <<"-", unwrap(entry.spec.short), ", --">> \o entry.spec.name
              ELSE IF is_some(entry.spec.short)
              THEN <<"--">> \o entry.spec.name \o <<", -", unwrap(entry.spec.short)>>
              ELSE IF ~md.full_help
              THEN <<"    --">> \o entry.spec.name
              ELSE <<"--">> \o entry.spec.name, is_terminal)
    ELSE IF entry.kind = "Arg"
    THEN IF is_some(entry.spec.example)
         THEN <<"<">> \o bold(entry.spec.name, is_terminal) \o <<">">>
         ELSE <<"[">> \o bold(entry.spec.name, is_terminal) \o <<"]">>
    ELSE bold(entry.spec.name, is_terminal)

\* variant of usage_options: a required option counts as well
usage_options_all(wl) ==
    IF has_options(wl, TRUE) THEN <<" [OPTIONS]">> ELSE <<>>

\* build_usage: "Other options."
usage_options(wl) ==
    IF has_options(wl, FALSE) THEN <<" [OPTIONS]">> ELSE <<>>

\* build_usage: "Required options."
usage_required(wl) ==
    flatten([i \in DOMAIN wl |->
                IF wl[i].kind = "Opt" /\ is_some(wl[i].spec.example)
                THEN <<" --">> \o wl[i].spec.name \o <<" <">> \o ty(wl[i].spec) \o <<">">>
                ELSE <<>>])

\* self.fmt.text().ends_with("...")
ends_with_dots(text) == text # <<>> /\ text[Len(text)] = "..."

\* variant of usage_arg: every repeated take writes its own dots
usage_arg_repeat_dots(entry, last, text) ==
    IF last = Some(entry.spec) THEN text \o <<"...">>
    ELSE IF is_some(entry.spec.example)
    THEN text \o <<" <">> \o entry.spec.name \o <<">">>
    ELSE text \o <<" [">> \o entry.spec.name \o <<"]">>

\* build_usage: one step of the loop over the positional arguments
usage_arg(entry, last, text) ==
    IF last = Some(entry.spec)
    THEN IF ends_with_dots(text) THEN text ELSE text \o <<"...">>
    ELSE IF is_some(entry.spec.example)
    THEN text \o <<" <">> \o entry.spec.name \o <<">">>
    ELSE text \o <<" [">> \o entry.spec.name \o <<"]">>

\* build_usage: "Positional arguments."
RECURSIVE usage_args(_, _, _)
usage_args(wl, last, text) ==
    IF wl = <<>> THEN text
    ELSE IF Head(wl).kind # "Arg" THEN usage_args(Tail(wl), last, text)
    ELSE usage_args(Tail(wl), Some(Head(wl).spec), usage_arg(Head(wl), last, text))

\* HelpBuilder::build_usage
build_usage(l, md, is_terminal) ==
    LET wl == working_log(l)
        marker == IF is_some(cmd_name(l)) THEN <<" ... ">> \o unwrap(cmd_name(l))
                  ELSE <<>>
        before == bold_underline(<<"Usage:">>, is_terminal) \o <<" ">>
                      \o bold(app_name, is_terminal) \o marker
                      \o usage_required(wl) \o usage_options(wl)
    IN  usage_args(wl, None, before)
            \o (IF has_subcommands(wl) THEN <<" <COMMAND>">> ELSE <<>>)
            \o <<"\n\n">>

\* build_example: the quoting of an example
quote(example) ==
    LET has(c) == \E i \in DOMAIN example : example[i] = c
    IN  IF has("\"") /\ ~has("'") THEN <<"'">> \o example \o <<"'">>
        ELSE IF has(" ") \/ has("'") THEN debug(example)
        ELSE example

\* the examples of the entries of l, each after a blank
example_words(l) ==
    flatten([i \in DOMAIN l |->
                IF is_some(example_of(l[i]))
                THEN <<" ">> \o unwrap(example_of(l[i])).words
                         \o quote(unwrap(example_of(l[i])).value)
                ELSE <<>>])

\* variant of build_example: the examples are those of the working log
build_example_working(l, md, is_terminal) ==
    IF ~has_examples(working_log(l)) THEN <<>>
    ELSE bold_underline(<<"Example:\n">>, is_terminal) \o <<"  $ ">> \o app_name
             \o example_words(working_log(l)) \o <<"\n\n">>

\* HelpBuilder::build_example
build_example(l, md, is_terminal) ==
    IF ~has_examples(working_log(l)) THEN <<>>
    ELSE bold_underline(<<"Example:\n">>, is_terminal) \o <<"  $ ">> \o app_name
             \o example_words(l) \o <<"\n\n">>

\* HelpBuilder::calc_width_offset_newline: the offset and the newline
offset(md) == IF md.full_help THEN <<" ", " ", " ", " ">> ELSE <<" ">>

newline(md) == IF md.full_help THEN <<"\n">> ELSE <<>>

\* the `[env: NAME]` and `[default: VALUE]` annotations of an entry
annotation(label, value, md) ==
    IF is_some(value)
    THEN offset(md) \o <<"[", label, ": ">> \o unwrap(value) \o <<"]">> \o newline(md)
    ELSE <<>>

\* str::lines: the lines of a text; a line end at the end of the text opens
\* no further line
RECURSIVE lines(_)
lines(text) ==
    LET ends == {i \in DOMAIN text : text[i] = "\n"}
    IN  IF text = <<>> THEN <<>>
        ELSE IF ends = {} THEN <<text>>
        ELSE <<SubSeq(text, 1, first_index(ends) - 1)>>
                 \o lines(SubSeq(text, first_index(ends) + 1, Len(text)))

\* HelpBuilder::doc_lines: doc.lines().take(limit)
doc_lines(doc, md) ==
    IF md.full_help \/ lines(doc) = <<>> THEN lines(doc) ELSE <<Head(lines(doc))>>

\* the doc lines of an entry as they are written, each after the offset
doc_text(ls, md) ==
    flatten([k \in DOMAIN ls |-> offset(md) \o ls[k] \o newline(md)])

\* HelpBuilder::build_description
build_description(md) ==
    IF md.app_description = <<>> THEN <<>>
    ELSE LET ls == doc_lines(md.app_description, md)
         IN  flatten([k \in DOMAIN ls |-> ls[k] \o <<"\n">>]) \o <<"\n">>

\* HelpBuilder::build_commands: the entries of the section
build_commands(wl, md, is_terminal) ==
    LET cmds == select(wl, {i \in DOMAIN wl : wl[i].kind = "Cmd"}, 1)
    IN  [k \in DOMAIN cmds |->
            <<"  ">> \o entry_name(cmds[k], md, is_terminal) \o newline(md)
                \o doc_text(lines(cmds[k].spec.doc), md) \o <<"\n">>]

\* HelpBuilder::build_arguments: the entries of the section
build_arguments(wl, md, is_terminal) ==
    LET first == {i \in DOMAIN wl :
                     /\ wl[i].kind = "Arg"
                     /\ \A j \in 1..(i - 1) :
                          wl[j].kind = "Arg" => wl[j].spec # wl[i].spec}
        args == select(wl, first, 1)
    IN  [k \in DOMAIN args |->
            <<"  ">> \o entry_name(args[k], md, is_terminal) \o newline(md)
                \o doc_text(doc_lines(args[k].spec.doc, md), md)
                \o annotation("default", args[k].spec.default, md) \o <<"\n">>]

\* HelpBuilder::build_options: the entries of the section
build_options(wl, md, is_terminal) ==
    LET first == {i \in DOMAIN wl :
                     /\ wl[i].kind \in {"Opt", "Flag"}
                     /\ \A j \in 1..(i - 1) :
                          wl[j].kind \in {"Opt", "Flag"} => name_of(wl[j]) # name_of(wl[i])}
        opts == select(wl, first, 1)
    IN  [k \in DOMAIN opts |->
            <<"  ">> \o entry_name(opts[k], md, is_terminal) \o newline(md)
                \o doc_text(doc_lines(opts[k].spec.doc, md), md)
                \o annotation("env",
                              IF is_some(opts[k].spec.env)
                              THEN Some(<<unwrap(opts[k].spec.env)>>) ELSE None, md)
                \o annotation("default",
                              IF opts[k].kind = "Opt" THEN opts[k].spec.default ELSE None,
                              md)
                \o <<"\n">>]

\* variant of args_log_after_new: the builder filters the log of the store
args_log_filtered(l) == working_log(l)

\* HelpBuilder::new, `log: args.log().to_vec()`: the builder works on a copy
\* of the log, the log of the store is left as it is
args_log_after_new(l) == l

\* HelpBuilder::new(&args, is_terminal).build(), as its parts
build(l, md, is_terminal) ==
    [log |-> working_log(l),
     cmd_name |-> cmd_name(l),
     description |-> build_description(md),
     usage |-> build_usage(l, md, is_terminal),
     example |-> build_example(l, md, is_terminal),
     commands |-> build_commands(working_log(l), md, is_terminal),
     arguments |-> build_arguments(working_log(l), md, is_terminal),
     options |-> build_options(working_log(l), md, is_terminal)]

(***************************************************************************)
(* Inputs: tokens, argument lists, environments and specifications.        *)
(***************************************************************************)
ProgName == <<"p">>

TokLongFoo == <<"-", "-", "f", "o", "o">>

TokLongFooEq1 == <<"-", "-", "f", "o", "o", "=", "1">>

TokShortF == <<"-", "f">>

TokShortBF == <<"-", "b", "f">>

TokShortFF == <<"-", "f", "f">>

TokRun == <<"r", "u", "n">>

TokOne == <<"1">>

TokTwo == <<"2">>

\* the tokens the generated argument lists are made of
Pool == {TokLongFoo, TokShortF, TokShortBF, TokRun, TokOne}

\* every argument list of at most MaxArgs tokens of the pool
GeneratedArgv ==
    {<<ProgName>> \o t : t \in UNION {[1..n -> Pool] : n \in 0..MaxArgs}}

\* tests::parse_opt of opt.rs with `--foo 1` as first option
ArgvOptScenario == <<ProgName, TokLongFoo, TokOne, TokShortF, TokTwo, TokLongFoo>>

\* tests::parse_opt of opt.rs
ArgvParseOpt == <<ProgName, TokLongFooEq1, TokShortF, TokTwo, TokLongFoo>>

\* tests::flag_range of flag.rs
ArgvFlagRange == <<ProgName, TokLongFoo, TokLongFoo, TokLongFoo>>

\* tests::cmd_not_at_first_position_not_found of cmd.rs
ArgvFlagCmdFlag == <<ProgName, TokLongFoo, TokRun, TokLongFoo>>

\* a cluster that repeats one short name
ArgvRepeatedShort == <<ProgName, TokShortFF>>

\* tests::short_name_flag of flag.rs
ArgvCluster == <<ProgName, TokShortBF>>

\* tests::subcommand_and_flag scenario with the subcommand first
ArgvRunFoo == <<ProgName, TokRun, TokLongFoo>>

\* an option before and after the subcommand
ArgvOptCmdOpt == <<ProgName, TokLongFooEq1, TokRun, TokLongFooEq1>>

ScenarioArgv ==
    {ArgvOptScenario, ArgvParseOpt, ArgvFlagRange, ArgvFlagCmdFlag, ArgvRepeatedShort,
     ArgvCluster, ArgvRunFoo, ArgvOptCmdOpt}

Argvs == GeneratedArgv \cup ScenarioArgv

EnvNames == {"E"}

\* a variable is unset, set to the empty string or set to "1"
EnvValues == {None, Some(<<>>), Some(<<"1">>)}

NameFoo == <<"f", "o", "o">>

NameHelp == <<"h", "e", "l", "p">>

NameBar == <<"b", "a", "r">>

ArgAny ==
    [name |-> <<"A">>, doc |-> <<>>, default |-> None, example |-> None,
     min_index |-> None, max_index |-> None]

ArgSecond ==
    [name |-> <<"B">>, doc |-> <<>>, default |-> Some(<<"d">>), example |-> Some(<<"e">>),
     min_index |-> Some(2), max_index |-> Some(2)]

FlagFoo ==
    [name |-> NameFoo, doc |-> <<>>, short |-> Some("f"), env |-> None,
     min_index |-> None, max_index |-> None]

FlagBar ==
    [name |-> NameBar, doc |-> <<>>, short |-> Some("b"), env |-> None,
     min_index |-> None, max_index |-> None]

FlagFooSecond ==
    [name |-> NameFoo, doc |-> <<>>, short |-> None, env |-> Some("E"),
     min_index |-> Some(2), max_index |-> Some(2)]

OptFoo ==
    [name |-> NameFoo, doc |-> <<>>, short |-> Some("f"), env |-> None,
     default |-> None, example |-> None]

OptFooDefault ==
    [name |-> NameFoo, doc |-> <<>>, short |-> None, env |-> Some("E"),
     default |-> Some(<<"3">>), example |-> Some(<<"9">>)]

\* a required option: an example and no default
OptFooExample ==
    [name |-> NameFoo, doc |-> <<>>, short |-> None, env |-> Some("E"),
     default |-> None, example |-> Some(<<"9">>)]

\* HELP_FLAG
FlagHelp ==
    [name |-> NameHelp, doc |-> <<>>, short |-> Some("h"), env |-> None,
     min_index |-> None, max_index |-> None]

CmdRun == [name |-> TokRun, doc |-> <<>>]

ArgSpecs == {ArgAny, ArgSecond}

\* a flag scoped to a matched subcommand: min_index is the subcommand's index
ScopedFlags(l) ==
    {[FlagFoo EXCEPT !.short = None, !.min_index = l[k].index] :
        k \in {j \in DOMAIN l : l[j].kind = "Cmd" /\ l[j].variant = "Some"}}

FlagSpecs(l) == {FlagFoo, FlagBar, FlagFooSecond} \cup ScopedFlags(l)

OptSpecs == {OptFoo, OptFooDefault}

CmdSpecs == {CmdRun}

\* Metadata::DEFAULT
MetadataDefault ==
    [help_mode |-> FALSE, help_flag_name |-> Some(NameHelp), full_help |-> FALSE,
     app_description |-> <<>>]

(***************************************************************************)
(* The state machine.                                                      *)
(***************************************************************************)
Init ==
    /\ argv \in Argvs
    /\ raw_args = RawArgsNew(argv)
    /\ log = <<>>
    /\ metadata = MetadataDefault
    /\ env \in [EnvNames -> EnvValues]
    /\ calls = 0
    /\ result = None
    /\ cli = None

\* variant of TakeArg: the help-mode return happens before the recording
TakeArgUnrecordedInHelp ==
    /\ calls < MaxTakes
    /\ calls' = calls + 1
    /\ \E spec \in ArgSpecs :
         LET o == ArgTake(spec, raw_args, metadata)
         IN  /\ raw_args' = o.args
             /\ log' = IF metadata.help_mode THEN log ELSE with_record(log, o.taken)
    /\ UNCHANGED <<cli, argv, metadata, env, result>>

\* ArgSpec::take
TakeArg ==
    /\ calls < MaxTakes
    /\ calls' = calls + 1
    /\ \E spec \in ArgSpecs :
         LET o == ArgTake(spec, raw_args, metadata)
         IN  /\ raw_args' = o.args
             /\ log' = with_record(log, o.taken)
    /\ UNCHANGED <<cli, argv, metadata, env, result>>

\* FlagSpec::take
TakeFlag ==
    /\ calls < MaxTakes
    /\ calls' = calls + 1
    /\ \E spec \in FlagSpecs(log) :
         LET o == FlagTake(spec, raw_args, env)
         IN  /\ raw_args' = o.args
             /\ log' = with_record(log, o.taken)
    /\ UNCHANGED <<cli, argv, metadata, env, result>>

\* OptSpec::take
TakeOpt ==
    /\ calls < MaxTakes
    /\ calls' = calls + 1
    /\ \E spec \in OptSpecs :
         LET o == OptTake(spec, raw_args, metadata, env)
         IN  /\ raw_args' = o.args
             /\ log' = with_record(log, o.taken)
    /\ UNCHANGED <<cli, argv, metadata, env, result>>

\* CmdSpec::take
TakeCmd ==
    /\ calls < MaxTakes
    /\ calls' = calls + 1
    /\ \E spec \in CmdSpecs :
         LET o == CmdTake(spec, raw_args)
         IN  /\ raw_args' = o.args
             /\ log' = with_record(log, o.taken)
    /\ UNCHANGED <<cli, argv, metadata, env, result>>

\* args.metadata_mut().help_mode = true, by the calling code
SetHelpMode ==
    /\ ~metadata.help_mode
    /\ metadata' = [metadata EXCEPT !.help_mode = TRUE]
    /\ UNCHANGED <<cli, argv, raw_args, log, env, calls, result>>

Next == TakeArg \/ TakeFlag \/ TakeOpt \/ TakeCmd \/ SetHelpMode

Spec == Init /\ [][Next]_vars

(***************************************************************************)
(* The state machine with the checks that end a run.  The checks read the  *)
(* store and the log only, so a run is followed up to its first check.     *)
(***************************************************************************)
\* no environment variable is set: the checks do not read the environment
InitFinish ==
    /\ argv \in Argvs
    /\ raw_args = RawArgsNew(argv)
    /\ log = <<>>
    /\ metadata = MetadataDefault
    /\ env = [n \in EnvNames |-> None]
    /\ calls = 0
    /\ result = None
    /\ cli = None

\* Error::check_unexpected_arg(&args)
CheckUnexpectedArg ==
    /\ result = None
    /\ result' = Some([op |-> "check_unexpected_arg",
                       value |-> check_unexpected_arg(raw_args)])
    /\ UNCHANGED <<cli, argv, raw_args, log, metadata, env, calls>>

\* Error::check_command_error(&args)
CheckCommandError ==
    /\ result = None
    /\ result' = Some([op |-> "check_command_error",
                       value |-> check_command_error(raw_args, log)])
    /\ UNCHANGED <<cli, argv, raw_args, log, metadata, env, calls>>

\* args.finish()
Finish ==
    /\ result = None
    /\ result' = Some([op |-> "finish", value |-> finish(raw_args, log, metadata)])
    /\ UNCHANGED <<cli, argv, raw_args, log, metadata, env, calls>>

\* a take() or a change of the metadata happens before the check only
NextFinish ==
    \/ result = None /\ TakeArg
    \/ result = None /\ TakeFlag
    \/ result = None /\ TakeOpt
    \/ result = None /\ TakeCmd
    \/ result = None /\ SetHelpMode
    \/ CheckUnexpectedArg
    \/ CheckCommandError
    \/ Finish

SpecFinish == InitFinish /\ [][NextFinish]_vars

(***************************************************************************)
(* The state machine of the option takes alone, with a required option     *)
(* among the specs.                                                        *)
(***************************************************************************)
OptSpecsAll == OptSpecs \cup {OptFooExample}

\* OptSpec::take
TakeOptAny ==
    /\ calls < MaxTakes
    /\ calls' = calls + 1
    /\ \E spec \in OptSpecsAll :
         LET o == OptTake(spec, raw_args, metadata, env)
         IN  /\ raw_args' = o.args
             /\ log' = with_record(log, o.taken)
    /\ UNCHANGED <<cli, argv, metadata, env, result>>

NextOpt == TakeOptAny \/ SetHelpMode

SpecOpt == Init /\ [][NextOpt]_vars

(***************************************************************************)
(* The state machine with FlagSpec::take_help.                             *)
(***************************************************************************)
TokLongHelp == <<"-", "-", "h", "e", "l", "p">>

TokShortH == <<"-", "h">>

\* `--help` after a flag, and `-h` and `--help` together
ArgvHelpLong == <<ProgName, TokLongFoo, TokLongHelp>>

ArgvHelpShortLong == <<ProgName, TokShortH, TokLongHelp>>

ArgvsHelp == GeneratedArgv \cup {ArgvHelpLong, ArgvHelpShortLong, ArgvFlagRange}

\* the flags that the calling code takes as help flags
HelpFlagSpecs == {FlagHelp, FlagFoo, FlagFooSecond}

InitHelp ==
    /\ argv \in ArgvsHelp
    /\ raw_args = RawArgsNew(argv)
    /\ log = <<>>
    /\ metadata = MetadataDefault
    /\ env \in [EnvNames -> EnvValues]
    /\ calls = 0
    /\ result = None
    /\ cli = None

\* FlagSpec::take_help
TakeHelp ==
    /\ calls < MaxHelpTakes
    /\ calls' = calls + 1
    /\ \E spec \in HelpFlagSpecs :
         LET o == FlagTake(spec, raw_args, env)
         IN  /\ raw_args' = o.args
             /\ log' = with_record(log, o.taken)
             /\ metadata' = take_help_metadata(spec, o.taken, metadata)
    /\ UNCHANGED <<cli, argv, env, result>>

\* a run with take_help is followed for MaxHelpTakes calls
NextHelp ==
    \/ calls < MaxHelpTakes /\ TakeArg
    \/ calls < MaxHelpTakes /\ TakeFlag
    \/ calls < MaxHelpTakes /\ TakeOpt
    \/ calls < MaxHelpTakes /\ TakeCmd
    \/ calls < MaxHelpTakes /\ SetHelpMode
    \/ TakeHelp

SpecHelp == InitHelp /\ [][NextHelp]_vars

(***************************************************************************)
(* The state machine of the calling code: takes of options with a short    *)
(* name on tokens that carry the value, then the combinators of the taken  *)
(* value.  A run is followed up to its first combinator or check.          *)
(***************************************************************************)
\* `-f=1`, as in tests::parse_opt_error of error.rs
TokShortFEq1 == <<"-", "f", "=", "1">>

\* `-f-1`, as in tests::short_option_concatenated_value_edge_cases
TokShortFDash1 == <<"-", "f", "-", "1">>

PoolUse == {TokShortFEq1, TokShortFDash1, TokShortF, TokLongFoo, TokOne, TokRun}

\* a value with a leading dash after a positional argument, and after `-f`
ArgvOneShortDash == <<ProgName, TokOne, TokShortFDash1>>

ArgvShortShortDash == <<ProgName, TokShortF, TokShortFDash1>>

\* `--foo 1`
ArgvLongFooOne == <<ProgName, TokLongFoo, TokOne>>

\* every argument list of at most MaxUseArgs tokens of PoolUse
ArgvsUse ==
    {<<ProgName>> \o t : t \in UNION {[1..n -> PoolUse] : n \in 0..MaxUseArgs}}
        \cup {ArgvOneShortDash, ArgvShortShortDash, ArgvLongFooOne}

\* a variable is unset, set to a number or set to a text that is no number
EnvValuesUse == {None, Some(<<"1">>), Some(<<"r">>)}

InitUse ==
    /\ argv \in ArgvsUse
    /\ raw_args = RawArgsNew(argv)
    /\ log = <<>>
    /\ metadata = MetadataDefault
    /\ env \in [EnvNames -> EnvValuesUse]
    /\ calls = 0
    /\ result = None
    /\ cli = None

\* args.metadata_mut().help_flag_name = None, by the calling code
ClearHelpFlagName ==
    /\ result = None
    /\ is_some(metadata.help_flag_name)
    /\ metadata' = [metadata EXCEPT !.help_flag_name = None]
    /\ UNCHANGED <<cli, argv, raw_args, log, env, calls, result>>

\* opt.take(&mut args).then(f)
TakeOptThen ==
    /\ result = None
    /\ calls <= MaxUseTakes
    /\ calls' = calls + 1
    /\ \E spec \in OptSpecs, f \in Parsers :
         LET o == OptTake(spec, raw_args, metadata, env)
         IN  /\ raw_args' = o.args
             /\ log' = with_record(log, o.taken)
             /\ result' = Some([op |-> "then", f |-> f,
                                value |-> then(o.taken, metadata, f)])
    /\ UNCHANGED <<cli, argv, metadata, env>>

\* opt.take(&mut args).present_and_then(f)
TakeOptPresentAndThen ==
    /\ result = None
    /\ calls <= MaxUseTakes
    /\ calls' = calls + 1
    /\ \E spec \in OptSpecs, f \in Parsers :
         LET o == OptTake(spec, raw_args, metadata, env)
         IN  /\ raw_args' = o.args
             /\ log' = with_record(log, o.taken)
             /\ result' = Some([op |-> "present_and_then", f |-> f,
                                value |-> present_and_then(o.taken, metadata, f)])
    /\ UNCHANGED <<cli, argv, metadata, env>>

\* arg.take(&mut args).parse::<T>()
TakeArgParse ==
    /\ result = None
    /\ calls <= MaxUseTakes
    /\ calls' = calls + 1
    /\ \E spec \in ArgSpecs, f \in Parsers :
         LET o == ArgTake(spec, raw_args, metadata)
         IN  /\ raw_args' = o.args
             /\ log' = with_record(log, o.taken)
             /\ result' = Some([op |-> "parse", f |-> f,
                                value |-> parse(o.taken, metadata, f)])
    /\ UNCHANGED <<cli, argv, metadata, env>>

\* arg.take(&mut args).parse_if_present::<T>()
TakeArgParseIfPresent ==
    /\ result = None
    /\ calls <= MaxUseTakes
    /\ calls' = calls + 1
    /\ \E spec \in ArgSpecs, f \in Parsers :
         LET o == ArgTake(spec, raw_args, metadata)
         IN  /\ raw_args' = o.args
             /\ log' = with_record(log, o.taken)
             /\ result' = Some([op |-> "parse_if_present", f |-> f,
                                value |-> parse_if_present(o.taken, metadata, f)])
    /\ UNCHANGED <<cli, argv, metadata, env>>

\* args.finish(): an error of the store carries the metadata of the store
FinishUse ==
    /\ result = None
    /\ result' = Some([op |-> "finish", f |-> "String",
                       value |-> store_error(finish(raw_args, log, metadata), metadata)])
    /\ UNCHANGED <<cli, argv, raw_args, log, metadata, env, calls>>

\* format!("{e:?}"): the error that ended the run is rendered
Report ==
    /\ result # None
    /\ unwrap(result).op # "to_string"
    /\ unwrap(result).value.tag = "Err"
    /\ \E is_terminal \in BOOLEAN :
         result' = Some([op |-> "to_string", f |-> unwrap(result).f,
                         value |-> unwrap(result).value,
                         is_terminal |-> is_terminal,
                         text |-> to_string(unwrap(result).value, is_terminal)])
    /\ UNCHANGED <<cli, argv, raw_args, log, metadata, env, calls>>

NextUse ==
    \/ result = None /\ calls < MaxUseTakes /\ TakeArg
    \/ result = None /\ calls < MaxUseTakes /\ TakeOpt
    \/ result = None /\ calls < MaxUseTakes /\ TakeCmd
    \/ result = None /\ SetHelpMode
    \/ ClearHelpFlagName
    \/ TakeOptThen
    \/ TakeOptPresentAndThen
    \/ TakeArgParse
    \/ TakeArgParseIfPresent
    \/ FinishUse
    \/ Report

SpecUse == InitUse /\ [][NextUse]_vars

(***************************************************************************)
(* The state machine of the help renderer: takes of specs with and without *)
(* examples, of subcommands and of specs scoped by a matched subcommand,   *)
(* then the help is built from the log.                                    *)
(***************************************************************************)
TokPut == <<"p", "u", "t">>

TokHi == <<"h", "i">>

\* tests::after_subcommands_help: the subcommand alone, and with a key
ArgvRun == <<ProgName, TokRun>>

ArgvRunOne == <<ProgName, TokRun, TokOne>>

ArgvsRender == {<<ProgName>>, ArgvRun, ArgvRunOne}

\* a required positional argument: it has an example
ArgKey ==
    [name |-> <<"K">>, doc |-> <<>>, default |-> None, example |-> Some(TokHi),
     min_index |-> None, max_index |-> None]

\* a required option: foo with the example 10
OptFooTen ==
    [name |-> NameFoo, doc |-> <<>>, short |-> Some("f"), env |-> None,
     default |-> None, example |-> Some(<<"1", "0">>)]

CmdPut == [name |-> TokPut, doc |-> <<>>]

\* the indices of the subcommands that matched a token
CmdIndices(l) ==
    {l[k].index : k \in {j \in DOMAIN l : l[j].kind = "Cmd" /\ l[j].variant = "Some"}}

\* positional specs, one of them declared from a matched subcommand on
RenderArgSpecs(l) ==
    {ArgAny, ArgKey} \cup {[ArgKey EXCEPT !.min_index = i] : i \in CmdIndices(l)}

\* flags, one of them declared up to a matched subcommand
RenderFlagSpecs(l) ==
    {FlagHelp, FlagFoo}
        \cup {[FlagFoo EXCEPT !.short = None, !.max_index = i] : i \in CmdIndices(l)}

RenderOptSpecs == {OptFoo, OptFooTen}

RenderCmdSpecs == {CmdRun, CmdPut}

InitRender ==
    /\ argv \in ArgvsRender
    /\ raw_args = RawArgsNew(argv)
    /\ log = <<>>
    /\ metadata = MetadataDefault
    /\ env = [n \in EnvNames |-> None]
    /\ calls = 0
    /\ result = None
    /\ cli = None

RenderTakeArg ==
    /\ result = None
    /\ calls < MaxRenderTakes
    /\ calls' = calls + 1
    /\ \E spec \in RenderArgSpecs(log) :
         LET o == ArgTake(spec, raw_args, metadata)
         IN  /\ raw_args' = o.args
             /\ log' = with_record(log, o.taken)
    /\ UNCHANGED <<cli, argv, metadata, env, result>>

RenderTakeFlag ==
    /\ result = None
    /\ calls < MaxRenderTakes
    /\ calls' = calls + 1
    /\ \E spec \in RenderFlagSpecs(log) :
         LET o == FlagTake(spec, raw_args, env)
         IN  /\ raw_args' = o.args
             /\ log' = with_record(log, o.taken)
    /\ UNCHANGED <<cli, argv, metadata, env, result>>

RenderTakeOpt ==
    /\ result = None
    /\ calls < MaxRenderTakes
    /\ calls' = calls + 1
    /\ \E spec \in RenderOptSpecs :
         LET o == OptTake(spec, raw_args, metadata, env)
         IN  /\ raw_args' = o.args
             /\ log' = with_record(log, o.taken)
    /\ UNCHANGED <<cli, argv, metadata, env, result>>

RenderTakeCmd ==
    /\ result = None
    /\ calls < MaxRenderTakes
    /\ calls' = calls + 1
    /\ \E spec \in RenderCmdSpecs :
         LET o == CmdTake(spec, raw_args)
         IN  /\ raw_args' = o.args
             /\ log' = with_record(log, o.taken)
    /\ UNCHANGED <<cli, argv, metadata, env, result>>

\* args.metadata_mut().full_help = true, by the calling code
SetFullHelp ==
    /\ result = None
    /\ ~metadata.full_help
    /\ metadata' = [metadata EXCEPT !.full_help = TRUE]
    /\ UNCHANGED <<cli, argv, raw_args, log, env, calls, result>>

\* HelpBuilder::new(&args, is_terminal).build(); the help may be built again
BuildHelp ==
    /\ IF result = None THEN TRUE ELSE unwrap(result).op = "help"
    /\ \E is_terminal \in BOOLEAN :
         result' = Some([op |-> "help", is_terminal |-> is_terminal,
                         value |-> build(log, metadata, is_terminal)])
    /\ log' = args_log_after_new(log)
    /\ UNCHANGED <<cli, argv, raw_args, metadata, env, calls>>

NextRender ==
    \/ RenderTakeArg
    \/ RenderTakeFlag
    \/ RenderTakeOpt
    \/ RenderTakeCmd
    \/ result = None /\ SetHelpMode
    \/ SetFullHelp
    \/ BuildHelp

SpecRender == InitRender /\ [][NextRender]_vars

(***************************************************************************)
(* The state machine of the help renderer with docs: takes of specs whose  *)
(* doc has one line or two, an application description, then the help is   *)
(* built in summary or in full mode.                                       *)
(***************************************************************************)
\* a doc of one line and a doc of two lines
DocOne == <<"x">>

DocTwo == <<"a", "\n", "b">>

ArgDoc ==
    [name |-> <<"A">>, doc |-> DocTwo, default |-> Some(<<"d">>), example |-> None,
     min_index |-> None, max_index |-> None]

FlagDoc ==
    [name |-> NameFoo, doc |-> DocTwo, short |-> Some("f"), env |-> Some("E"),
     min_index |-> None, max_index |-> None]

OptDoc ==
    [name |-> NameBar, doc |-> DocTwo, short |-> None, env |-> Some("E"),
     default |-> Some(<<"3">>), example |-> None]

CmdDoc == [name |-> TokRun, doc |-> DocTwo]

CmdDocOne == [name |-> <<"p", "u", "t">>, doc |-> DocOne]

DocArgSpecs == {ArgDoc, [ArgDoc EXCEPT !.doc = DocOne]}

DocFlagSpecs == {FlagDoc, FlagHelp}

DocOptSpecs == {OptDoc}

DocCmdSpecs == {CmdDoc, CmdDocOne}

Descriptions == {DocOne, DocTwo}

InitDoc ==
    /\ argv \in {<<ProgName>>, <<ProgName, TokRun>>}
    /\ raw_args = RawArgsNew(argv)
    /\ log = <<>>
    /\ metadata = MetadataDefault
    /\ env = [n \in EnvNames |-> None]
    /\ calls = 0
    /\ result = None
    /\ cli = None

DocTakeArg ==
    /\ result = None
    /\ calls < MaxDocTakes
    /\ calls' = calls + 1
    /\ \E spec \in DocArgSpecs :
         LET o == ArgTake(spec, raw_args, metadata)
         IN  /\ raw_args' = o.args
             /\ log' = with_record(log, o.taken)
    /\ UNCHANGED <<cli, argv, metadata, env, result>>

DocTakeFlag ==
    /\ result = None
    /\ calls < MaxDocTakes
    /\ calls' = calls + 1
    /\ \E spec \in DocFlagSpecs :
         LET o == FlagTake(spec, raw_args, env)
         IN  /\ raw_args' = o.args
             /\ log' = with_record(log, o.taken)
    /\ UNCHANGED <<cli, argv, metadata, env, result>>

DocTakeOpt ==
    /\ result = None
    /\ calls < MaxDocTakes
    /\ calls' = calls + 1
    /\ \E spec \in DocOptSpecs :
         LET o == OptTake(spec, raw_args, metadata, env)
         IN  /\ raw_args' = o.args
             /\ log' = with_record(log, o.taken)
    /\ UNCHANGED <<cli, argv, metadata, env, result>>

DocTakeCmd ==
    /\ result = None
    /\ calls < MaxDocTakes
    /\ calls' = calls + 1
    /\ \E spec \in DocCmdSpecs :
         LET o == CmdTake(spec, raw_args)
         IN  /\ raw_args' = o.args
             /\ log' = with_record(log, o.taken)
    /\ UNCHANGED <<cli, argv, metadata, env, result>>

\* args.metadata_mut().app_description = .., by the calling code
SetDescription ==
    /\ result = None
    /\ metadata.app_description = <<>>
    /\ \E d \in Descriptions :
         metadata' = [metadata EXCEPT !.app_description = d]
    /\ UNCHANGED <<cli, argv, raw_args, log, env, calls, result>>

NextDoc ==
    \/ DocTakeArg
    \/ DocTakeFlag
    \/ DocTakeOpt
    \/ DocTakeCmd
    \/ SetDescription
    \/ result = None /\ SetHelpMode
    \/ SetFullHelp
    \/ BuildHelp

SpecDoc == InitDoc /\ [][NextDoc]_vars

(***************************************************************************)
(* CliArgs (args.rs): the store with a `--` separator.  A CliArgs is a     *)
(* record of its fields; raw_args is a function from 0..n-1 to             *)
(* Option<String>, the program name left out.  The variable cli holds the  *)
(* CliArgs, the variable log what the calls returned, in call order.       *)
(***************************************************************************)
\* CliArgs::new
CliArgsNew(args) ==
    LET raw == [i \in 0..(Len(args) - 2) |-> Some(args[i + 2])]
        separators == {i \in DOMAIN raw : raw[i] = Some(DashDash)}
    IN  IF separators = {}
        THEN [raw_args |-> raw, named_args_end |-> Len(args) - 1,
              positional_args_start |-> 0, options |-> <<>>]
        ELSE [raw_args |-> [raw EXCEPT ![first_index(separators)] = None],
              named_args_end |-> first_index(separators),
              positional_args_start |-> first_index(separators),
              options |-> <<>>]

\* the closure of take_if in CliArgs::take_flag
flag_found(spec, raw_arg) ==
    \/ starts_with(raw_arg, DashDash) /\ slice_from(raw_arg, 2) = spec.long_name
    \/ /\ is_some(spec.short_name)
       /\ starts_with(raw_arg, Dash)
       /\ Len(raw_arg) = 2
       /\ Some(raw_arg[2]) = spec.short_name

\* variant of take_flag: the scan goes over the whole store
take_flag_whole_store(c, spec) ==
    LET found == {i \in DOMAIN c.raw_args :
                     /\ is_some(c.raw_args[i])
                     /\ flag_found(spec, unwrap(c.raw_args[i]))}
        pushed == [c EXCEPT !.options = Append(@, spec)]
    IN  IF found = {} THEN [value |-> FALSE, cli |-> pushed]
        ELSE [value |-> TRUE,
              cli |-> [pushed EXCEPT !.raw_args[first_index(found)] = None]]

\* CliArgs::take_flag: what it returns and the CliArgs it leaves
take_flag(c, spec) ==
    LET found == {i \in DOMAIN c.raw_args :
                     /\ i < c.named_args_end
                     /\ is_some(c.raw_args[i])
                     /\ flag_found(spec, unwrap(c.raw_args[i]))}
        pushed == [c EXCEPT !.options = Append(@, spec)]
    IN  IF found = {} THEN [value |-> FALSE, cli |-> pushed]
        ELSE [value |-> TRUE,
              cli |-> [pushed EXCEPT !.raw_args[first_index(found)] = None]]

\* the OptionSpec of Version::is_present and of Help::is_present
VersionSpec == [long_name |-> <<"v", "e", "r", "s", "i", "o", "n">>, short_name |-> None]

HelpSpec(short_name) == [long_name |-> NameHelp, short_name |-> short_name]

\* CliArg::take: Ok(value) or Err(TakeError), and the CliArgs it leaves; every
\* slot that the iterator visits moves positional_args_start by one
cli_arg_take(c) ==
    LET present == {i \in DOMAIN c.raw_args :
                       i >= c.positional_args_start /\ is_some(c.raw_args[i])}
    IN  IF present = {}
        THEN [value |-> [tag |-> "Err", error |-> "TakeError"],
              cli |-> [c EXCEPT !.positional_args_start = Cardinality(DOMAIN c.raw_args)]]
        ELSE [value |-> [tag |-> "Ok", value |-> unwrap(c.raw_args[first_index(present)])],
              cli |-> [c EXCEPT !.raw_args[first_index(present)] = None,
                                !.positional_args_start = first_index(present) + 1]]

TokVersion == <<"-", "-", "v", "e", "r", "s", "i", "o", "n">>

PoolCli == {TokRun, DashDash, TokVersion, TokShortH, TokLongHelp}

\* tests::version of args.rs, and a second `--` after the first
ArgvRunSepVersion == <<ProgName, TokRun, DashDash, TokVersion>>

ArgvHelpSepSep == <<ProgName, TokShortH, DashDash, TokLongHelp, DashDash>>

ArgvsCli ==
    {<<ProgName>> \o t : t \in UNION {[1..n -> PoolCli] : n \in 0..MaxCliArgs}}
        \cup {ArgvRunSepVersion, ArgvHelpSepSep}

InitCli ==
    /\ argv \in ArgvsCli
    /\ cli = Some(CliArgsNew(argv))
    /\ raw_args = RawArgsNew(argv)
    /\ log = <<>>
    /\ metadata = MetadataDefault
    /\ env = [n \in EnvNames |-> None]
    /\ calls = 0
    /\ result = None

\* args.version().is_present()
CliVersion ==
    /\ calls < MaxCliTakes
    /\ calls' = calls + 1
    /\ LET r == take_flag(unwrap(cli), VersionSpec)
       IN  /\ cli' = Some(r.cli)
           /\ log' = Append(log, [op |-> "version", value |-> r.value])
    /\ UNCHANGED <<argv, raw_args, metadata, env, result>>

\* args.help().is_present() and args.help().short('h').is_present()
CliHelp ==
    /\ calls < MaxCliTakes
    /\ calls' = calls + 1
    /\ \E short_name \in {None, Some("h")} :
         LET r == take_flag(unwrap(cli), HelpSpec(short_name))
         IN  /\ cli' = Some(r.cli)
             /\ log' = Append(log, [op |-> "help", value |-> r.value])
    /\ UNCHANGED <<argv, raw_args, metadata, env, result>>

\* args.arg(name).take()
CliArgTake ==
    /\ calls < MaxCliTakes
    /\ calls' = calls + 1
    /\ LET r == cli_arg_take(unwrap(cli))
       IN  /\ cli' = Some(r.cli)
           /\ log' = Append(log, [op |-> "arg", value |-> r.value])
    /\ UNCHANGED <<argv, raw_args, metadata, env, result>>

NextCli == CliVersion \/ CliHelp \/ CliArgTake

SpecCli == InitCli /\ [][NextCli]_vars

(***************************************************************************)
(* The state machine of the flag takes on clusters of short names.         *)
(***************************************************************************)
TokShortFBF == <<"-", "f", "b", "f">>

\* a `--` token that holds the short names f and b and is no long name
TokLongFb == <<"-", "-", "f", "b">>

PoolCluster == {TokShortF, TokShortBF, TokShortFF, TokShortFBF, TokLongFoo, TokLongFb}

\* tests::short_name_flag of flag.rs
ArgvShortCluster == <<ProgName, TokShortF, TokShortBF>>

ArgvsCluster ==
    {<<ProgName>> \o t : t \in UNION {[1..n -> PoolCluster] : n \in 0..MaxClusterArgs}}
        \cup {ArgvShortCluster}

InitCluster ==
    /\ argv \in ArgvsCluster
    /\ raw_args = RawArgsNew(argv)
    /\ log = <<>>
    /\ metadata = MetadataDefault
    /\ env = [n \in EnvNames |-> None]
    /\ calls = 0
    /\ result = None
    /\ cli = None

NextCluster == TakeFlag

SpecCluster == InitCluster /\ [][NextCluster]_vars

(***************************************************************************)
(* The state machine of the takes of positional arguments and options with *)
(* and without a default and an example, in and outside help mode.         *)
(***************************************************************************)
ExampleArgSpecs == {ArgAny, ArgSecond, ArgKey}

TakeArgExample ==
    /\ calls < MaxTakes
    /\ calls' = calls + 1
    /\ \E spec \in ExampleArgSpecs :
         LET o == ArgTake(spec, raw_args, metadata)
         IN  /\ raw_args' = o.args
             /\ log' = with_record(log, o.taken)
    /\ UNCHANGED <<cli, argv, metadata, env, result>>

\* among the options one with an example and nothing else to fall back to
ExampleOptSpecs == OptSpecsAll \cup {OptFooTen}

TakeOptExample ==
    /\ calls < MaxTakes
    /\ calls' = calls + 1
    /\ \E spec \in ExampleOptSpecs :
         LET o == OptTake(spec, raw_args, metadata, env)
         IN  /\ raw_args' = o.args
             /\ log' = with_record(log, o.taken)
    /\ UNCHANGED <<cli, argv, metadata, env, result>>

InitExample ==
    /\ argv \in GeneratedArgv \cup {ArgvOptScenario}
    /\ raw_args = RawArgsNew(argv)
    /\ log = <<>>
    /\ metadata = MetadataDefault
    /\ env \in [EnvNames -> EnvValues]
    /\ calls = 0
    /\ result = None
    /\ cli = None

NextExample == TakeArgExample \/ TakeOptExample \/ SetHelpMode

SpecExample == InitExample /\ [][NextExample]_vars

(***************************************************************************)
(* The state machine of the option whose name stands alone in its token:   *)
(* the option and the flag of two names are taken from command lines made  *)
(* of their bare names and one plain word, then the run is checked.        *)
(***************************************************************************)
TokLongBar == <<"-", "-", "b", "a", "r">>

TokShortB == <<"-", "b">>

PoolValue == {TokLongFoo, TokLongBar, TokShortF, TokShortB, TokOne}

\* noargs::opt("bar").short('b')
OptBar ==
    [name |-> NameBar, doc |-> <<>>, short |-> Some("b"), env |-> None,
     default |-> None, example |-> None]

\* the option foo with neither variable nor default, the option bar, and the
\* option foo with the variable E and a default
ValueOptSpecs == {OptFoo, OptBar, OptFooDefault}

\* the variable E is unset or holds a value
EnvValuesValue == {None, Some(<<"1">>)}

ValueFlagSpecs == {FlagFoo, FlagBar}

\* `--foo --bar`
ArgvLongFooLongBar == <<ProgName, TokLongFoo, TokLongBar>>

\* `-f -b`
ArgvShortFShortB == <<ProgName, TokShortF, TokShortB>>

\* `--foo`
ArgvLongFooOnly == <<ProgName, TokLongFoo>>

ArgvsValue ==
    {<<ProgName>> \o s : s \in UNION {[1..n -> PoolValue] : n \in 0..MaxValueArgs}}

InitValue ==
    /\ argv \in ArgvsValue
    /\ raw_args = RawArgsNew(argv)
    /\ log = <<>>
    /\ metadata = MetadataDefault
    /\ env \in [EnvNames -> EnvValuesValue]
    /\ calls = 0
    /\ result = None
    /\ cli = None

\* OptSpec::take
ValueTakeOpt ==
    /\ calls < MaxValueTakes
    /\ calls' = calls + 1
    /\ \E spec \in ValueOptSpecs :
         LET o == OptTake(spec, raw_args, metadata, env)
         IN  /\ raw_args' = o.args
             /\ log' = with_record(log, o.taken)
    /\ UNCHANGED <<cli, argv, metadata, env, result>>

\* FlagSpec::take
ValueTakeFlag ==
    /\ calls < MaxValueTakes
    /\ calls' = calls + 1
    /\ \E spec \in ValueFlagSpecs :
         LET o == FlagTake(spec, raw_args, env)
         IN  /\ raw_args' = o.args
             /\ log' = with_record(log, o.taken)
    /\ UNCHANGED <<cli, argv, metadata, env, result>>

NextValue ==
    \/ result = None /\ ValueTakeOpt
    \/ result = None /\ ValueTakeFlag
    \/ CheckUnexpectedArg
    \/ Finish

SpecValue == InitValue /\ [][NextValue]_vars

(***************************************************************************)
(* Type invariant.                                                         *)
(***************************************************************************)
TypeOK ==
    /\ DOMAIN raw_args = 0..(Len(argv) - 1)
    /\ \A i \in DOMAIN raw_args : Cardinality(raw_args[i].value) <= 1
    /\ calls \in 0..MaxTakes
    /\ metadata.help_mode \in BOOLEAN

(***************************************************************************)
(* Helpers of the properties.                                              *)
(***************************************************************************)
\* the slot at index i still holds a token
Present(args, i) == i \in DOMAIN args /\ is_some(args[i].value)

\* the step is a take() call; Last is the result it returned
IsTake == calls' = calls + 1

Last == log'[Len(log')]

\* the entry carries the index of a live token
IsLive(t) == is_some(t.index)

\* a is b with some of its characters left out
RECURSIVE IsSubseq(_, _)
IsSubseq(a, b) ==
    IF a = <<>> THEN TRUE
    ELSE IF b = <<>> THEN FALSE
    ELSE IF a[1] = b[1] THEN IsSubseq(Tail(a), Tail(b))
    ELSE IsSubseq(a, Tail(b))

\* the token that the process argument list holds at index i
Original(i) == argv[i + 1]

\* the specs of the logged entries, in call order
LogSpecs == [k \in DOMAIN log |-> log[k].spec]

(***************************************************************************)
(* C1: a slot that has become consumed never becomes present again, and a  *)
(* take never returns the index of a slot that was consumed before it.     *)
(***************************************************************************)
C1_ConsumedIsFinal ==
    [][/\ \A i \in DOMAIN raw_args :
            ~Present(raw_args, i) => ~Present(raw_args', i)
       /\ (IsTake /\ Len(log') > 0 /\ IsLive(Last)) =>
            Present(raw_args, unwrap(Last.index))]_vars

\* a take found nothing left after two takes of two kinds had consumed the store
C1_Witness ==
    /\ Len(log) = 3
    /\ IsLive(log[1]) /\ IsLive(log[2]) /\ ~IsLive(log[3])
    /\ log[1].kind # log[2].kind
    /\ log[3].kind = log[1].kind
    /\ \A i \in DOMAIN raw_args : ~Present(raw_args, i)

(***************************************************************************)
(* C2 as stated: two successive takes of the same spec never both return a *)
(* live match at the same slot index.                                      *)
(***************************************************************************)
C2_NoRepeatedIndex ==
    \A k \in DOMAIN log :
        (k > 1 /\ log[k].spec = log[k - 1].spec /\ log[k].kind = log[k - 1].kind
               /\ IsLive(log[k]) /\ IsLive(log[k - 1]))
        => log[k].index # log[k - 1].index

(***************************************************************************)
(* C2 amended: two successive takes of the same spec return a live match   *)
(* at the same slot index only when the first is a short-name flag match   *)
(* on a cluster that holds further characters.                             *)
(***************************************************************************)
C2_RepeatedIndexOnlyShortCluster ==
    \A k \in DOMAIN log :
        (k > 1 /\ log[k].spec = log[k - 1].spec /\ log[k].kind = log[k - 1].kind
               /\ IsLive(log[k]) /\ IsLive(log[k - 1])
               /\ log[k].index = log[k - 1].index)
        => /\ log[k - 1].kind = "Flag"
           /\ log[k - 1].variant = "Short"
           /\ Len(Original(unwrap(log[k].index))) >= 3

\* the same spec matched two different tokens in two successive takes
C2_Witness ==
    \E k \in DOMAIN log :
        /\ k > 1 /\ log[k].spec = log[k - 1].spec /\ log[k].kind = log[k - 1].kind
        /\ IsLive(log[k]) /\ IsLive(log[k - 1])
        /\ log[k].index # log[k - 1].index
        /\ log[k].kind = "Opt"

(***************************************************************************)
(* C3: the store keeps its length, and an index reported by a take names   *)
(* the token that the argument list held at that position, whatever was    *)
(* consumed before.                                                        *)
(***************************************************************************)
C3_IndexStability ==
    /\ DOMAIN raw_args = 0..(Len(argv) - 1)
    /\ \A i \in DOMAIN raw_args :
          Present(raw_args, i) => IsSubseq(unwrap(raw_args[i].value), Original(i))
    /\ \A k \in DOMAIN log :
          IsLive(log[k]) =>
            LET i == unwrap(log[k].index)
                t == log[k]
            IN  /\ i \in 1..(Len(argv) - 1)
                /\ t.kind = "Arg" => IsSubseq(t.value, Original(i))
                /\ t.kind = "Cmd" => Original(i) = t.spec.name
                /\ (t.kind \in {"Flag", "Opt"} /\ t.variant = "Long")
                     => starts_with(Original(i), DashDash \o t.spec.name)
                /\ (t.kind \in {"Flag", "Opt"} /\ t.variant = "Short")
                     => /\ is_some(t.spec.short)
                        /\ IsSubseq(<<"-", unwrap(t.spec.short)>>, Original(i))

\* a token at position 3 is reported with index 3 after slots 1 and 2 were consumed
C3_Witness ==
    /\ Len(log) = 3
    /\ log[1].index = Some(2) /\ log[2].index = Some(1) /\ log[3].index = Some(3)
    /\ log[3].kind = "Flag"

(***************************************************************************)
(* C4: the log has one entry per take() call, in call order, and a step    *)
(* never changes or removes an earlier entry.                              *)
(***************************************************************************)
C4_LogAppendOnly ==
    [][/\ Len(log') = calls'
       /\ SubSeq(log', 1, Len(log)) = log]_vars

\* three calls, the absent ones included, gave three entries
C4_Witness ==
    /\ calls = 3 /\ Len(log) = 3
    /\ log[1].variant = "None" /\ log[3].variant = "None"
    /\ IsLive(log[2])

(***************************************************************************)
(* C5: outside help mode ArgSpec::take returns the lowest present slot of  *)
(* [min_index, max_index] with its exact text and consumes it, whatever    *)
(* the text is; it returns a non-live result only if no slot of the range  *)
(* is present.                                                             *)
(***************************************************************************)
C5_ArgTakesFirstPresent ==
    [][(IsTake /\ Len(log') > 0 /\ Last.kind = "Arg" /\ ~metadata.help_mode) =>
        LET spec == Last.spec
            inRange == {i \in DOMAIN raw_args :
                          /\ Present(raw_args, i)
                          /\ (is_some(spec.min_index) => unwrap(spec.min_index) <= i)
                          /\ (is_some(spec.max_index) => i <= unwrap(spec.max_index))}
        IN  IF inRange = {}
            THEN /\ Last.variant \in {"Default", "None"}
                 /\ raw_args' = raw_args
            ELSE \E i \in inRange :
                   /\ \A j \in inRange : i <= j
                   /\ Last.variant = "Positional"
                   /\ Last.index = Some(i)
                   /\ Last.value = unwrap(raw_args[i].value)
                   /\ raw_args' = [raw_args EXCEPT ![i] = Consumed]]_vars

\* a positional take returned a token that starts with a dash
C5_Witness ==
    \E k \in DOMAIN log :
        /\ log[k].kind = "Arg" /\ log[k].variant = "Positional"
        /\ log[k].spec = ArgSecond
        /\ log[k].value = TokLongFoo
        /\ ~metadata.help_mode

(***************************************************************************)
(* C6 as stated: while help_mode is true no take() of any spec kind         *)
(* changes the raw store or returns a live-token result; the result is     *)
(* Default, Example or None.                                               *)
(***************************************************************************)
C6_HelpModeNoScanAnyKind ==
    [][(IsTake /\ Len(log') > 0 /\ metadata.help_mode) =>
        /\ raw_args' = raw_args
        /\ Last.variant \in {"Default", "Example", "None"}]_vars

(***************************************************************************)
(* C6 amended: while help_mode is true ArgSpec::take and OptSpec::take     *)
(* leave the raw store unchanged and return Default, Example or None;      *)
(* FlagSpec::take and CmdSpec::take do not look at help_mode.              *)
(***************************************************************************)
C6_HelpModeNoScanArgOpt ==
    [][(IsTake /\ Len(log') > 0 /\ metadata.help_mode /\ Last.kind \in {"Arg", "Opt"}) =>
        /\ raw_args' = raw_args
        /\ Last.variant \in {"Default", "Example", "None"}
        /\ ~IsLive(Last)]_vars

\* in help mode an option and a positional were taken and no token of the
\* scenario was consumed, although `--foo 1` matches the option
C6_Witness ==
    /\ metadata.help_mode
    /\ argv = ArgvOptScenario
    /\ raw_args = RawArgsNew(argv)
    /\ Len(log) = 3
    /\ log[1].kind = "Opt" /\ log[1].spec = OptFoo /\ log[1].variant = "None"
    /\ log[2].kind = "Opt" /\ log[2].variant = "Default"
    /\ log[3].kind = "Arg" /\ log[3].variant = "None"

(***************************************************************************)
(* C7: for the tokens [prog, --foo, 1, -f, 2, --foo] and the option foo    *)
(* with short f taken three times, the first take is a Long match at index *)
(* 1 with value "1", the second a Short match at index 3 with value "2",   *)
(* and the third is the missing-value state, with no value.                *)
(***************************************************************************)
C7_OptScenario ==
    (/\ argv = ArgvOptScenario
     /\ ~metadata.help_mode
     /\ \A k \in DOMAIN log : log[k].kind = "Opt" /\ log[k].spec = OptFoo)
    => /\ Len(log) >= 1 =>
            /\ log[1].variant = "Long" /\ log[1].index = Some(1)
            /\ value_of(log[1]) = TokOne
       /\ Len(log) >= 2 =>
            /\ log[2].variant = "Short" /\ log[2].index = Some(3)
            /\ value_of(log[2]) = TokTwo
       /\ Len(log) >= 3 =>
            /\ log[3].variant = "MissingValue"
            /\ is_present(log[3]) /\ ~is_value_present(log[3])
            /\ value_of(log[3]) = <<>> /\ ~IsLive(log[3])
            /\ \A i \in DOMAIN raw_args : ~Present(raw_args, i)

\* the three takes of the scenario were made
C7_Witness ==
    /\ argv = ArgvOptScenario
    /\ ~metadata.help_mode
    /\ Len(log) = 3
    /\ \A k \in DOMAIN log : log[k].kind = "Opt" /\ log[k].spec = OptFoo
    /\ log[3].variant = "MissingValue"

(***************************************************************************)
(* C8: when the first token that OptSpec::take matches is a bare option    *)
(* name and the slot right after it does not exist or is consumed, the     *)
(* result is MissingValue (is_present, not is_value_present), never None   *)
(* or a fallback, even if present tokens exist further on.                 *)
(***************************************************************************)
\* the token is the bare name of the option
IsBareName(spec, text) ==
    \/ text = DashDash \o spec.name
    \/ is_some(spec.short) /\ text = <<"-", unwrap(spec.short)>>

\* the token names the option, with or without a value attached
NamesOpt(spec, text) ==
    \/ IsBareName(spec, text)
    \/ starts_with(text, DashDash \o spec.name \o <<"=">>)
    \/ /\ is_some(spec.short)
       /\ ~starts_with(text, DashDash)
       /\ starts_with(text, <<"-", unwrap(spec.short)>>)

C8_BareNameWithoutValue ==
    [][(IsTake /\ Len(log') > 0 /\ Last.kind = "Opt" /\ ~metadata.help_mode) =>
        LET spec == Last.spec
            named == {i \in DOMAIN raw_args :
                        Present(raw_args, i) /\ NamesOpt(spec, unwrap(raw_args[i].value))}
        IN  \A i \in named :
              (/\ \A j \in named : i <= j
               /\ IsBareName(spec, unwrap(raw_args[i].value))
               /\ ~Present(raw_args, i + 1))
              => /\ Last.variant = "MissingValue"
                 /\ is_present(Last) /\ ~is_value_present(Last)
                 /\ ~Present(raw_args', i)]_vars

\* `--foo` was followed by a consumed slot: the take gave MissingValue although
\* the option has a default and tokens are present further on
C8_Witness ==
    /\ argv = ArgvOptScenario
    /\ Len(log) = 2
    /\ log[1].kind = "Arg" /\ log[1].index = Some(2)
    /\ log[2].kind = "Opt" /\ log[2].spec = OptFooDefault
    /\ log[2].variant = "MissingValue"
    /\ Present(raw_args, 3) /\ Present(raw_args, 4)

(***************************************************************************)
(* C9: for the single token -bf and the flags with short b and short f,    *)
(* taking b then f and taking f then b both report both flags present at   *)
(* index 1 and leave the slot consumed; a further take of either flag      *)
(* reports absence.                                                        *)
(***************************************************************************)
C9_ShortClusterCommutes ==
    (/\ argv = ArgvCluster
     /\ Len(log) >= 2
     /\ <<log[1].spec, log[2].spec>> \in {<<FlagBar, FlagFoo>>, <<FlagFoo, FlagBar>>})
    => /\ log[1].variant = "Short" /\ log[1].index = Some(1)
       /\ log[2].variant = "Short" /\ log[2].index = Some(1)
       /\ ~Present(raw_args, 1)
       /\ \A k \in DOMAIN log :
            (k > 2 /\ log[k].spec \in {FlagBar, FlagFoo}) =>
                log[k].variant = "None" /\ ~is_present(log[k])

\* f then b were taken from -bf, and a third take of f was made
C9_Witness ==
    /\ argv = ArgvCluster
    /\ Len(log) = 3
    /\ LogSpecs = <<FlagFoo, FlagBar, FlagFoo>>
    /\ log[3].variant = "None"

(***************************************************************************)
(* C10: FlagSpec::take and ArgSpec::take only match a slot whose index is  *)
(* in [min_index, max_index], both inclusive, a missing bound being open,  *)
(* and leave every slot outside the range unchanged; for the tokens        *)
(* [prog, run, --foo] the subcommand run is present at index 1 and a flag  *)
(* foo with min_index set to that index is present at index 2.             *)
(***************************************************************************)
\* the index is inside the bounds of the spec
InBounds(spec, i) ==
    /\ (is_some(spec.min_index) => unwrap(spec.min_index) <= i)
    /\ (is_some(spec.max_index) => i <= unwrap(spec.max_index))

C10_MatchWithinBounds ==
    [][(IsTake /\ Len(log') > 0) =>
        /\ Last.kind \in {"Arg", "Flag"} =>
             /\ IsLive(Last) => InBounds(Last.spec, unwrap(Last.index))
             /\ \A j \in DOMAIN raw_args :
                  ~InBounds(Last.spec, j) => raw_args'[j] = raw_args[j]
        /\ (argv = ArgvRunFoo /\ Len(log') >= 1 /\ log'[1].kind = "Cmd") =>
             log'[1].variant = "Some" /\ log'[1].index = Some(1)
        /\ (/\ argv = ArgvRunFoo /\ Len(log') = 2 /\ log'[1].kind = "Cmd"
            /\ log'[2].kind = "Flag" /\ log'[2].spec.name = NameFoo
            /\ log'[2].spec.min_index = log'[1].index
            /\ log'[2].spec.max_index = None) =>
             log'[2].variant = "Long" /\ log'[2].index = Some(2)]_vars

\* the bounded flag matched the second of three `--foo` and left the others
C10_Witness ==
    /\ argv = ArgvFlagRange
    /\ Len(log) = 2
    /\ log[1].spec = FlagFooSecond /\ log[1].index = Some(2)
    /\ log[2].spec = FlagFooSecond /\ ~IsLive(log[2])
    /\ Present(raw_args, 1) /\ Present(raw_args, 3)

\* in the subcommand scenario the scoped flag matched at index 2
C10_ScenarioReached ==
    /\ argv = ArgvRunFoo
    /\ Len(log) = 2
    /\ log[1].kind = "Cmd" /\ log[1].index = Some(1)
    /\ log[2].kind = "Flag" /\ log[2].spec.min_index = Some(1)
    /\ log[2].index = Some(2)

(***************************************************************************)
(* C11: after a subcommand is matched at index i, an option take does not  *)
(* consume or change a slot below i and a live option match has an index   *)
(* above i: option matching cannot reach back into the tokens before the   *)
(* subcommand name.                                                        *)
(***************************************************************************)
\* the indices at which the log holds a matched subcommand
MatchedCmdIndices(l) ==
    {unwrap(l[k].index) : k \in {j \in DOMAIN l : l[j].kind = "Cmd" /\ l[j].variant = "Some"}}

IsNextToken(args, i, text) ==
    /\ Present(args, i)
    /\ \A j \in DOMAIN args : j < i => ~Present(args, j)
    /\ unwrap(args[i].value) = text

C12_CmdOnlyNextToken ==
    [][(IsTake /\ Len(log') > 0 /\ Last.kind = "Cmd") =>
        /\ is_present(Last) <=>
              \E i \in DOMAIN raw_args : IsNextToken(raw_args, i, Last.spec.name)
        /\ \A i \in DOMAIN raw_args :
              IsNextToken(raw_args, i, Last.spec.name) =>
                  /\ index_of(Last) = Some(i)
                  /\ raw_args' = [raw_args EXCEPT ![i] = Consumed]
        /\ ~is_present(Last) => index_of(Last) = None /\ raw_args' = raw_args]_vars

\* `run` behind `--foo` was not found, then found once `--foo` was consumed
C12_Witness ==
    /\ argv = ArgvFlagCmdFlag
    /\ Len(log) = 3
    /\ log[1].kind = "Cmd" /\ ~is_present(log[1])
    /\ log[2].kind = "Flag" /\ log[2].index = Some(1)
    /\ log[3].kind = "Cmd" /\ log[3].index = Some(2)
    /\ ~Present(raw_args, 2) /\ Present(raw_args, 3)

(***************************************************************************)
(* Helpers of the properties about the checks that end a run.              *)
(***************************************************************************)
\* the run has ended with the check named op
Ended(op) == is_some(result) /\ unwrap(result).op = op

\* the value the check returned
Returned == unwrap(result).value

\* some slot of the store is still present
SomePresent == \E i \in DOMAIN raw_args : Present(raw_args, i)

\* the text of the present slot with the lowest index
FirstPresentText ==
    unwrap(raw_args[CHOOSE i \in DOMAIN raw_args :
                        /\ Present(raw_args, i)
                        /\ \A j \in DOMAIN raw_args : Present(raw_args, j) => i <= j].value)

\* the last logged entry is a subcommand extraction that did not match
LastIsUnmatchedCmd ==
    /\ Len(log) > 0
    /\ log[Len(log)].kind = "Cmd"
    /\ log[Len(log)].variant = "None"

(***************************************************************************)
(* C13: the unexpected-argument check fails if and only if some raw slot   *)
(* is still present, whatever the log holds, and the error names the text  *)
(* of the present slot with the lowest index; with no present slot it      *)
(* succeeds.                                                               *)
(***************************************************************************)
C13_UnexpectedArgIffPresent ==
    Ended("check_unexpected_arg") =>
        /\ Returned.tag = "Err" <=> SomePresent
        /\ SomePresent =>
              /\ Returned.error = "UnexpectedArg"
              /\ Returned.raw_arg = Some(FirstPresentText)
        /\ ~SomePresent => Returned = Ok

\* after the flag at index 1 was taken the check names `run` at index 2,
\* not the later `--foo`
C13_Witness ==
    /\ Ended("check_unexpected_arg")
    /\ argv = ArgvFlagCmdFlag
    /\ Len(log) = 1 /\ log[1].index = Some(1)
    /\ Present(raw_args, 2) /\ Present(raw_args, 3)
    /\ Returned = Err("UnexpectedArg", Some(TokRun))

(***************************************************************************)
(* C14: the command check fails exactly when the last logged entry is a    *)
(* subcommand extraction that did not match; it then reports               *)
(* UndefinedCommand with the first present token if a token remains and    *)
(* MissingCommand if the store is exhausted; in every other case it        *)
(* reports no error.                                                       *)
(***************************************************************************)
C14_CommandCheck ==
    Ended("check_command_error") =>
        /\ Returned.tag = "Err" <=> LastIsUnmatchedCmd
        /\ (LastIsUnmatchedCmd /\ SomePresent) =>
              Returned = Err("UndefinedCommand", Some(FirstPresentText))
        /\ (LastIsUnmatchedCmd /\ ~SomePresent) =>
              Returned = Err("MissingCommand", None)
        /\ ~LastIsUnmatchedCmd => Returned = Ok

\* two subcommand takes failed on the token `1`, which the error names
C14_Witness ==
    /\ Ended("check_command_error")
    /\ argv = <<ProgName, TokOne>>
    /\ Len(log) = 2
    /\ log[1].kind = "Cmd" /\ log[2].kind = "Cmd"
    /\ LastIsUnmatchedCmd
    /\ Returned = Err("UndefinedCommand", Some(TokOne))

(***************************************************************************)
(* C15: finish returns one value, so at most one error; outside help mode, *)
(* when the last logged entry is an unmatched subcommand and a token       *)
(* remains, the error is UndefinedCommand for that token and not           *)
(* UnexpectedArg; UnexpectedArg is returned only when the last logged      *)
(* entry is not an unmatched subcommand, that is when the command check    *)
(* passes.                                                                 *)
(***************************************************************************)
C15_FinishOneError ==
    Ended("finish") =>
        /\ (~metadata.help_mode /\ LastIsUnmatchedCmd /\ SomePresent) =>
              Returned = Err("UndefinedCommand", Some(FirstPresentText))
        /\ (Returned.tag = "Err" /\ Returned.error = "UnexpectedArg") =>
              /\ ~LastIsUnmatchedCmd
              /\ Returned.raw_arg = Some(FirstPresentText)

\* tests::undefined_command_error: finish after a failed subcommand take
C15_Witness ==
    /\ Ended("finish")
    /\ ~metadata.help_mode
    /\ argv = <<ProgName, TokOne>>
    /\ Len(log) = 1 /\ LastIsUnmatchedCmd
    /\ Present(raw_args, 1)
    /\ Returned = Err("UndefinedCommand", Some(TokOne))

(***************************************************************************)
(* C16: finish has three outcomes: Ok(Some(help)) when help_mode is set;   *)
(* otherwise an error if a raw slot is still present or the last logged    *)
(* entry is an unmatched subcommand; otherwise Ok(None).  Ok(None) is      *)
(* returned only when every raw slot is consumed.                          *)
(***************************************************************************)
C16_FinishOutcomes ==
    Ended("finish") =>
        /\ metadata.help_mode => Returned = OkHelp
        /\ (~metadata.help_mode /\ (SomePresent \/ LastIsUnmatchedCmd)) =>
              Returned.tag = "Err"
        /\ (~metadata.help_mode /\ ~SomePresent /\ ~LastIsUnmatchedCmd) =>
              Returned = Ok
        /\ Returned = Ok => \A i \in DOMAIN raw_args : ~Present(raw_args, i)

\* every token of [prog, run, --foo] was taken and finish returned Ok(None)
C16_Witness ==
    /\ Ended("finish")
    /\ argv = ArgvRunFoo
    /\ Len(log) = 2
    /\ log[1].kind = "Cmd" /\ log[1].index = Some(1)
    /\ log[2].kind = "Flag" /\ log[2].index = Some(2)
    /\ Returned = Ok

\* finish in help mode returned the help text although a token was left
C16_HelpReached ==
    /\ Ended("finish")
    /\ metadata.help_mode
    /\ SomePresent
    /\ Returned = OkHelp

\* finish returned MissingCommand on an exhausted store
C16_MissingCommandReached ==
    /\ Ended("finish")
    /\ argv = <<ProgName>>
    /\ LastIsUnmatchedCmd
    /\ Returned = Err("MissingCommand", None)

(***************************************************************************)
(* C17: the environment variable is a fallback only.  FlagSpec::take, and  *)
(* OptSpec::take outside help mode, return the live match of the first     *)
(* matching token of the scanned range and consume it even if the          *)
(* variable is set (a bare option name without a value gives the           *)
(* missing-value state of C8, never Env); they return Env exactly when no  *)
(* live token matches and the variable is set to a non-empty value, on     *)
(* every such call and without changing the store; an unset or empty       *)
(* variable never gives Env.                                               *)
(***************************************************************************)
\* the token is the long form of the flag or a cluster that holds its short name
NamesFlag(spec, text) ==
    \/ text = DashDash \o spec.name
    \/ /\ starts_with(text, Dash)
       /\ ~starts_with(text, DashDash)
       /\ \E k \in 2..Len(text) : Some(text[k]) = spec.short

\* the environment variable of the spec is set to a non-empty value
EnvSet(spec) ==
    /\ is_some(spec.env)
    /\ is_some(env[unwrap(spec.env)])
    /\ unwrap(env[unwrap(spec.env)]) # <<>>

C17_OptReached ==
    /\ argv = ArgvOptCmdOpt
    /\ EnvSet(OptFooDefault)
    /\ ~metadata.help_mode
    /\ Len(log) = 3
    /\ \A k \in 1..3 : log[k].spec = OptFooDefault
    /\ log[1].index = Some(1) /\ log[2].index = Some(3)
    /\ log[3].variant = "Env" /\ log[3].value = <<"1">>

(***************************************************************************)
(* C18 as stated: when OptSpec::take finds no live match the result is Env *)
(* if the variable is set and non-empty, else Default if the spec has a    *)
(* default, else Example only if help mode is active and the spec has an   *)
(* example, else None.                                                     *)
(***************************************************************************)
\* the result is not a match of a token of the store
NoLiveMatch(t) == t.variant \notin {"Long", "Short", "MissingValue"}

C18_FallbackPrecedence ==
    [][(IsTake /\ Len(log') > 0 /\ Last.kind = "Opt" /\ NoLiveMatch(Last)) =>
        Last.variant =
            IF EnvSet(Last.spec) THEN "Env"
            ELSE IF is_some(Last.spec.default) THEN "Default"
            ELSE IF metadata.help_mode /\ is_some(Last.spec.example) THEN "Example"
            ELSE "None"]_vars

(***************************************************************************)
(* C18 amended: outside help mode, when OptSpec::take finds no live match  *)
(* the result is Env if the variable is set and non-empty, else Default if *)
(* the spec has a default, else None, and never Example; in help mode the  *)
(* variable is not read and the result is Default if the spec has a        *)
(* default, else Example if it has an example, else None.                  *)
(***************************************************************************)
C18_FallbackPrecedenceByMode ==
    [][(IsTake /\ Len(log') > 0 /\ Last.kind = "Opt" /\ NoLiveMatch(Last)) =>
        /\ ~metadata.help_mode =>
              /\ Last.variant =
                    IF EnvSet(Last.spec) THEN "Env"
                    ELSE IF is_some(Last.spec.default) THEN "Default"
                    ELSE "None"
              /\ Last.variant = "Env" => value_of(Last) = unwrap(env[unwrap(Last.spec.env)])
        /\ metadata.help_mode =>
              Last.variant =
                    IF is_some(Last.spec.default) THEN "Default"
                    ELSE IF is_some(Last.spec.example) THEN "Example"
                    ELSE "None"
        /\ Last.variant = "Default" => value_of(Last) = unwrap(Last.spec.default)
        /\ Last.variant = "Example" => value_of(Last) = unwrap(Last.spec.example)]_vars

\* with the variable set, the option with a default gave Env outside help
\* mode and Default in help mode; the option with an example only gave
\* Example in help mode
C18_Witness ==
    /\ EnvSet(OptFooDefault)
    /\ metadata.help_mode
    /\ Len(log) = 3
    /\ log[1].spec = OptFooDefault /\ log[1].variant = "Env"
    /\ log[2].spec = OptFooDefault /\ log[2].variant = "Default"
    /\ log[3].spec = OptFooExample /\ log[3].variant = "Example"

C19_OptReached ==
    /\ argv = ArgvOptCmdOpt
    /\ ~EnvSet(OptFooDefault)
    /\ ~metadata.help_mode
    /\ Len(log) = 3
    /\ \A k \in 1..3 : log[k].spec = OptFooDefault
    /\ log[1].variant = "Long" /\ log[2].variant = "Long"
    /\ log[3].variant = "Default" /\ value_of(log[3]) = <<"3">>
    /\ Present(raw_args, 2)

(***************************************************************************)
(* C20: FlagSpec::take_help returns and consumes what take does and also   *)
(* updates the metadata: if the flag is present it sets help_mode to true  *)
(* and help_flag_name to the name of the spec, and sets full_help to true  *)
(* only when the match is the long form, leaving it as it was otherwise;   *)
(* if the flag is absent the metadata is unchanged.  A plain take() of any *)
(* spec never changes the metadata.                                        *)
(***************************************************************************)
C20_TakeHelpMetadata ==
    [][/\ TakeHelp =>
             /\ Last = FlagTake(Last.spec, raw_args, env).taken
             /\ raw_args' = FlagTake(Last.spec, raw_args, env).args
             /\ is_present(Last) =>
                   /\ metadata'.help_mode
                   /\ metadata'.help_flag_name = Some(Last.spec.name)
                   /\ metadata'.full_help =
                         (metadata.full_help \/ Last.variant = "Long")
             /\ ~is_present(Last) => metadata' = metadata
       /\ (TakeArg \/ TakeFlag \/ TakeOpt \/ TakeCmd) => metadata' = metadata]_vars

\* `-h` turned help mode on without full help, then `--help` asked for it
C20_Witness ==
    /\ argv = ArgvHelpShortLong
    /\ Len(log) = 2
    /\ log[1].spec = FlagHelp /\ log[1].variant = "Short"
    /\ log[2].spec = FlagHelp /\ log[2].variant = "Long"
    /\ metadata.help_mode /\ metadata.full_help
    /\ metadata.help_flag_name = Some(NameHelp)

\* a short match of a flag named foo set help_flag_name and not full_help
C20_ShortReached ==
    /\ Len(log) = 1
    /\ log[1].spec = FlagFoo /\ log[1].variant = "Short"
    /\ metadata.help_mode /\ ~metadata.full_help
    /\ metadata.help_flag_name = Some(NameFoo)

\* an absent help flag left the metadata as it was
C20_AbsentReached ==
    /\ Len(log) = 1
    /\ log[1].spec = FlagHelp /\ log[1].variant = "None"
    /\ metadata = MetadataDefault

(***************************************************************************)
(* C21..C22: the value of an option given with its short name.             *)
(***************************************************************************)
\* the slot at index i held the text when the run started and is consumed
ConsumedOnly(i, old, new) ==
    /\ new[i].value = None
    /\ \A j \in DOMAIN old : j # i => new[j] = old[j]

\* C21: a take of an option whose short name is c, on a store whose first
\* present token that names the option is `-c=V`, returns Short with the
\* value V (the text after the '='), and consumes that one slot.
C21_ShortEqualsSplit ==
    [][\A i \in DOMAIN raw_args :
         (/\ IsTake
          /\ ~metadata.help_mode
          /\ Last.kind = "Opt"
          /\ is_some(Last.spec.short)
          /\ Present(raw_args, i)
          /\ Len(unwrap(raw_args[i].value)) > 3
          /\ SubSeq(unwrap(raw_args[i].value), 1, 3)
               = <<"-", unwrap(Last.spec.short), "=">>
          /\ \A j \in 0..(i - 1) :
               Present(raw_args, j) => ~NamesOpt(Last.spec, unwrap(raw_args[j].value)))
         => /\ Last.variant = "Short"
            /\ Last.index = Some(i)
            /\ Last.value = slice_from(unwrap(raw_args[i].value), 3)
            /\ ConsumedOnly(i, raw_args, raw_args')]_vars

C22_NextSlotReached ==
    /\ argv = <<ProgName, TokShortF, TokShortFDash1>>
    /\ Len(log) = 1
    /\ log[1].variant = "Short"
    /\ log[1].index = Some(1)
    /\ log[1].value = TokShortFDash1
    /\ ~Present(raw_args, 1)
    /\ ~Present(raw_args, 2)

(***************************************************************************)
(* C23..C24: the combinators of Opt and Arg.                               *)
(***************************************************************************)
\* the run ended with the combinator op; Subject is the value it was called on
EndedUse(op) == result # None /\ unwrap(result).op = op

Subject == log[Len(log)]

Returned2 == unwrap(result).value

\* C23: Opt::None is not present; MissingValue is present without a value;
\* every other variant is present with a value.  then() returns MissingOpt
\* exactly when no value is present, InvalidOpt with the function's reason
\* when the function fails on the value, and the function's result
\* otherwise; present_and_then() returns Ok(None) exactly for Opt::None and
\* MissingOpt for MissingValue.
C23_OptCombinators ==
    (EndedUse("then") \/ EndedUse("present_and_then")) =>
        LET opt == Subject
            f == unwrap(result).f
            r == Returned2
            applied == apply(f, value_of(opt))
        IN  /\ opt.kind = "Opt"
            /\ opt.variant = "None" => ~is_present(opt) /\ ~is_value_present(opt)
            /\ opt.variant = "MissingValue" => is_present(opt) /\ ~is_value_present(opt)
            /\ opt.variant \in {"Long", "Short", "Env", "Default", "Example"}
                   => is_present(opt) /\ is_value_present(opt)
            /\ EndedUse("then") =>
                 /\ (r.tag = "Err" /\ r.error = "MissingOpt")
                        <=> opt.variant \in {"None", "MissingValue"}
                 /\ r.tag = "Err" => r.taken = opt
                 /\ (opt.variant \notin {"None", "MissingValue"} /\ applied.tag = "Err")
                        => /\ r.tag = "Err"
                           /\ r.error = "InvalidOpt"
                           /\ r.reason = applied.reason
                 /\ (opt.variant \notin {"None", "MissingValue"} /\ applied.tag = "Ok")
                        => r = applied
            /\ EndedUse("present_and_then") =>
                 /\ r = ParseOk(None) <=> opt.variant = "None"
                 /\ opt.variant = "MissingValue"
                        => r.tag = "Err" /\ r.error = "MissingOpt" /\ r.taken = opt
                 /\ (opt.variant \notin {"None", "MissingValue"} /\ applied.tag = "Ok")
                        => r = ParseOk(Some(applied.value))

\* tests::missing_opt_error of error.rs: `-f` alone, then() returns MissingOpt
C23_Witness ==
    /\ argv = <<ProgName, TokShortF>>
    /\ EndedUse("then")
    /\ Subject.variant = "MissingValue"
    /\ ~Subject.long
    /\ Returned2.tag = "Err"
    /\ Returned2.error = "MissingOpt"

\* an option that was not given: then() returns MissingOpt and
\* present_and_then() returns Ok(None)
C23_NotGivenReached ==
    /\ EndedUse("present_and_then")
    /\ Subject.variant = "None"
    /\ Returned2 = ParseOk(None)

\* the function fails on the value "=1" of `-f=1`
C23_InvalidReached ==
    /\ argv = <<ProgName, TokShortFEq1>>
    /\ EndedUse("then")
    /\ Subject.variant = "Short"
    /\ Returned2.tag = "Err"
    /\ Returned2.error = "InvalidOpt"
    /\ Returned2.reason = "invalid digit found in string"

\* the function's result is returned: `--foo 1` parsed as the number 1
C23_ParsedReached ==
    /\ argv = ArgvLongFooOne
    /\ EndedUse("then")
    /\ Subject.variant = "Long"
    /\ Returned2 = ParseOk(1)

\* C24: ArgSpec::take always returns a value of one of the four variants, and
\* absence is an error on request only: parse() returns MissingArg exactly
\* when the Arg is None, an invalid-value error that carries the Arg (its
\* spec and its raw text) and the reason when the text does not parse, and
\* the parsed value otherwise; parse_if_present() returns Ok(None) when the
\* Arg is None.
C24_ArgParse ==
    (EndedUse("parse") \/ EndedUse("parse_if_present")) =>
        LET arg == Subject
            f == unwrap(result).f
            r == Returned2
            applied == apply(f, value_of(arg))
        IN  /\ arg.kind = "Arg"
            /\ arg.variant \in {"Positional", "Default", "Example", "None"}
            /\ EndedUse("parse") =>
                 /\ (r.tag = "Err" /\ r.error = "MissingArg") <=> arg.variant = "None"
                 /\ (arg.variant # "None" /\ applied.tag = "Err")
                        => /\ r.tag = "Err"
                           /\ r.error = "InvalidArg"
                           /\ r.taken = arg
                           /\ r.taken.spec = arg.spec
                           /\ value_of(r.taken) = value_of(arg)
                           /\ r.reason = applied.reason
                 /\ (arg.variant # "None" /\ applied.tag = "Ok") => r = applied
            /\ EndedUse("parse_if_present") =>
                 /\ arg.variant = "None" => r = ParseOk(None)
                 /\ (arg.variant # "None" /\ applied.tag = "Ok")
                        => r = ParseOk(Some(applied.value))
                 /\ (arg.variant # "None" /\ applied.tag = "Err")
                        => r.tag = "Err" /\ r.error = "InvalidArg"

\* tests::missing_arg_error of error.rs: no token, parse() returns MissingArg
C24_Witness ==
    /\ argv = <<ProgName>>
    /\ EndedUse("parse")
    /\ Subject.variant = "None"
    /\ Returned2.tag = "Err"
    /\ Returned2.error = "MissingArg"

\* tests::parse_arg of arg.rs: "1" parses and a text that is no number does not
C24_ParsedReached ==
    /\ argv = <<ProgName, TokOne>>
    /\ EndedUse("parse")
    /\ Subject.variant = "Positional"
    /\ Returned2 = ParseOk(1)

C24_InvalidReached ==
    /\ argv = <<ProgName, TokRun>>
    /\ EndedUse("parse")
    /\ Subject.variant = "Positional"
    /\ Returned2.tag = "Err"
    /\ Returned2.error = "InvalidArg"
    /\ value_of(Returned2.taken) = TokRun

C24_IfPresentNoneReached ==
    /\ EndedUse("parse_if_present")
    /\ Subject.variant = "None"
    /\ Returned2 = ParseOk(None)

(***************************************************************************)
(* C25: the rendered text of an error.                                     *)
(***************************************************************************)
\* sub occurs in text as a run of consecutive pieces
Contains(text, sub) ==
    \E k \in 0..(Len(text) - Len(sub)) : SubSeq(text, k + 1, k + Len(sub)) = sub

EndsWith(text, sub) ==
    Len(sub) <= Len(text) /\ SubSeq(text, Len(text) - Len(sub) + 1, Len(text)) = sub

\* the hint for the help flag name, in the styling of the output
Hint(name, is_terminal) ==
    <<"\n\nTry '">> \o bold(DashDash \o name, is_terminal) \o <<"' for more information.">>

\* the token or the spec name that the error is about (MissingCommand has
\* neither)
Offender(e) ==
    IF e.error \in {"UnexpectedArg", "UndefinedCommand"} THEN unwrap(e.raw_arg)
    ELSE IF e.error = "MissingCommand" THEN <<>>
    ELSE IF e.error \in {"InvalidArg", "MissingArg"} THEN e.taken.spec.name
    ELSE IF e.taken.variant \in {"Short", "MissingValue"} /\ is_some(e.taken.spec.short)
            /\ (e.taken.variant = "MissingValue" => ~e.taken.long)
    THEN <<"-", unwrap(e.taken.spec.short)>>
    ELSE DashDash \o e.taken.spec.name

\* C25: the rendered text of an error of any kind names the offending token
\* or spec name; it ends with the hint "Try '--<help-flag>' for more
\* information." when a help flag name is configured in the metadata of the
\* store, and contains no hint when none is configured.
C25_ErrorTextHint ==
    EndedUse("to_string") =>
        LET e == unwrap(result).value
            text == unwrap(result).text
            t == unwrap(result).is_terminal
        IN  /\ Contains(text, Offender(e))
            /\ is_some(metadata.help_flag_name)
                   => EndsWith(text, Hint(unwrap(metadata.help_flag_name), t))
            /\ ~is_some(metadata.help_flag_name)
                   => ~Contains(text, <<"' for more information.">>)

(***************************************************************************)
(* C26..C30: the help renderer.                                            *)
(***************************************************************************)
\* the help that was built, and the styling it was built with
Help == unwrap(result).value

Styled == unwrap(result).is_terminal

IsArg(e) == e.kind = "Arg"

\* `<name>` for a positional spec with an example, `[name]` for one without
PositionalName(spec) ==
    IF is_some(spec.example) THEN <<" <">> \o spec.name \o <<">">>
    ELSE <<" [">> \o spec.name \o <<"]">>

\* every run of takes of one positional spec once, a run of two or more
\* followed by `...`
PositionalRuns(wl) ==
    LET a == SelectSeq(wl, IsArg)
        piece(i) ==
            IF i > 1 /\ a[i].spec = a[i - 1].spec
            THEN IF i > 2 /\ a[i - 2].spec = a[i].spec THEN <<>> ELSE <<"...">>
            ELSE PositionalName(a[i].spec)
    IN  flatten([i \in DOMAIN a |-> piece(i)])

\* every distinct positional spec once, where it was first taken, followed
\* by `...` when it was taken more than once
PositionalDistinct(wl) ==
    LET a == SelectSeq(wl, IsArg)
        piece(i) ==
            IF \E j \in 1..(i - 1) : a[j].spec = a[i].spec THEN <<>>
            ELSE IF \E j \in DOMAIN a : j # i /\ a[j].spec = a[i].spec
            THEN PositionalName(a[i].spec) \o <<"...">>
            ELSE PositionalName(a[i].spec)
    IN  flatten([i \in DOMAIN a |-> piece(i)])

\* the usage line of the help h with the given positional part
UsageLine(h, positional) ==
    LET wl == h.log
        marker == IF is_some(h.cmd_name) THEN <<" ... ">> \o unwrap(h.cmd_name) ELSE <<>>
        required ==
            flatten([i \in DOMAIN wl |->
                        IF wl[i].kind = "Opt" /\ is_some(wl[i].spec.example)
                        THEN <<" --">> \o wl[i].spec.name \o <<" <", "VALUE", ">">>
                        ELSE <<>>])
        options ==
            IF \E i \in DOMAIN wl :
                   \/ wl[i].kind = "Flag"
                   \/ wl[i].kind = "Opt" /\ ~is_some(wl[i].spec.example)
            THEN <<" [OPTIONS]">> ELSE <<>>
        command ==
            IF \E i \in DOMAIN wl : wl[i].kind = "Cmd" THEN <<" <COMMAND>">> ELSE <<>>
    IN  bold_underline(<<"Usage:">>, Styled) \o <<" ">> \o bold(app_name, Styled)
            \o marker \o required \o options \o positional \o command \o <<"\n\n">>

\* C26: the usage line is the app name, the subcommand marker if a
\* subcommand is active, `--name <TYPE>` for each entry of a required option,
\* `[OPTIONS]` exactly when the working log holds a flag or an option
\* without example, the positional specs, and `<COMMAND>` exactly when the
\* working log holds a subcommand entry, in this order; one required option
\* foo with the example 10 and one optional flag give
\* `Usage: <app> --foo <VALUE> [OPTIONS]` and `$ <app> --foo 10`.
C26_UsageLine ==
    EndedUse("help") =>
        /\ Help.usage = UsageLine(Help, PositionalRuns(Help.log))
        /\ (/\ ~Styled
            /\ Len(log) = 2
            /\ log[1].spec = OptFooTen
            /\ log[2].kind = "Flag")
               => /\ Help.usage = <<"Usage:", " ", "<APP_NAME>", " --", "f", "o", "o",
                                    " <", "VALUE", ">", " [OPTIONS]", "\n\n">>
                  /\ Help.example = <<"Example:\n", "  $ ", "<APP_NAME>", " ", "-", "-",
                                      "f", "o", "o", " ", "1", "0", "\n\n">>

\* tests::required_opts_help: the help flag and the required option foo
C26_Witness ==
    /\ EndedUse("help")
    /\ ~Styled
    /\ Len(log) = 2
    /\ log[1].spec = OptFooTen
    /\ log[2].spec = FlagHelp
    /\ Help.usage = <<"Usage:", " ", "<APP_NAME>", " --", "f", "o", "o",
                      " <", "VALUE", ">", " [OPTIONS]", "\n\n">>

\* a usage line with the marker, a positional argument and no [OPTIONS]
C26_MarkerReached ==
    /\ EndedUse("help")
    /\ ~Styled
    /\ Help.usage = <<"Usage:", " ", "<APP_NAME>", " ... ", "r", "u", "n",
                      " [", "A", "]", " <COMMAND>", "\n\n">>

\* C27 as stated: every distinct positional spec appears once in the usage
\* line, in the order of first declaration, as <name> or [name], and a spec
\* taken more than once, anywhere in the call sequence, is followed by one
\* `...`.
C27_PositionalOnce ==
    EndedUse("help") => Help.usage = UsageLine(Help, PositionalDistinct(Help.log))

\* C27 as amended: the positional specs appear in call order as <name> (with
\* example) or [name] (without); consecutive takes of one spec are rendered
\* once, followed by one `...`; a spec that is taken again after another
\* positional spec is rendered again.
C27_PositionalRuns ==
    EndedUse("help") => Help.usage = UsageLine(Help, PositionalRuns(Help.log))

\* a required argument, then an optional argument taken twice
C27_Witness ==
    /\ EndedUse("help")
    /\ ~Styled
    /\ Len(log) = 3
    /\ log[1].spec = ArgKey
    /\ log[2].spec = ArgAny
    /\ log[3].spec = ArgAny
    /\ Help.usage = <<"Usage:", " ", "<APP_NAME>", " <", "K", ">", " [", "A", "]", "...",
                      "\n\n">>

\* an optional argument taken three times has one `...`
C27_ThreeTakesReached ==
    /\ EndedUse("help")
    /\ ~Styled
    /\ Len(log) = 3
    /\ \A i \in 1..3 : log[i].spec = ArgAny
    /\ Help.usage = <<"Usage:", " ", "<APP_NAME>", " [", "A", "]", "...", "\n\n">>

\* the specs of the given kinds in the working log
SpecsOf(wl, kinds) == {<<wl[i].kind, wl[i].spec>> : i \in {j \in DOMAIN wl : wl[j].kind \in kinds}}

\* C28: in the Commands, Arguments and Options sections every spec appears
\* once however often it was taken, and different specs are not merged: a
\* section has as many entries as the working log has distinct specs of its
\* kind.
C28_SectionEntries ==
    EndedUse("help") =>
        /\ Len(Help.commands) = Cardinality(SpecsOf(Help.log, {"Cmd"}))
        /\ Len(Help.arguments) = Cardinality(SpecsOf(Help.log, {"Arg"}))
        /\ Len(Help.options) = Cardinality(SpecsOf(Help.log, {"Opt", "Flag"}))

\* what an entry adds to the example line
ExampleWord(e) ==
    IF e.kind = "Arg" /\ is_some(e.spec.example) THEN <<" ">> \o unwrap(e.spec.example)
    ELSE IF e.kind = "Opt" /\ is_some(e.spec.example)
    THEN <<" ", "-", "-">> \o e.spec.name \o <<" ">> \o unwrap(e.spec.example)
    ELSE IF e.kind = "Cmd" /\ e.variant = "Some" THEN <<" ">> \o e.spec.name
    ELSE <<>>

CarriesExample(e) == e.kind \in {"Arg", "Opt"} /\ is_some(e.spec.example)

\* the example block with the examples of all logged entries, in log order
ExampleBlock ==
    bold_underline(<<"Example:\n">>, Styled) \o <<"  $ ">> \o app_name
        \o flatten([i \in DOMAIN log |-> ExampleWord(log[i])]) \o <<"\n\n">>

\* C29 as stated: the Example block is emitted exactly when a spec in the log
\* carries an example value, and its line lists the examples of the logged
\* entries in log order, the matched subcommand name included.
C29_ExampleIffLogged ==
    EndedUse("help") =>
        /\ Help.example # <<>> <=> \E i \in DOMAIN log : CarriesExample(log[i])
        /\ Help.example # <<>> => Help.example = ExampleBlock

\* C29 as amended: the Example block is emitted exactly when a spec in the
\* working log (the log as filtered for the last matched subcommand) carries
\* an example value; its line lists the examples of all logged entries in
\* log order, the matched subcommand name included.
C29_ExampleIffWorking ==
    EndedUse("help") =>
        /\ Help.example # <<>> <=> \E i \in DOMAIN Help.log : CarriesExample(Help.log[i])
        /\ Help.example # <<>> => Help.example = ExampleBlock

\* tests::after_subcommands_help: `$ <app> run hi`
C29_Witness ==
    /\ EndedUse("help")
    /\ ~Styled
    /\ argv = ArgvRun
    /\ Len(log) = 2
    /\ log[1].kind = "Cmd"
    /\ log[1].variant = "Some"
    /\ log[2].spec = [ArgKey EXCEPT !.min_index = Some(1)]
    /\ Help.example = <<"Example:\n", "  $ ", "<APP_NAME>", " ", "r", "u", "n", " ",
                        "h", "i", "\n\n">>

\* a log without example values gives no Example block
C29_NoExampleReached ==
    /\ EndedUse("help")
    /\ Len(log) = 3
    /\ \A i \in DOMAIN log : ~CarriesExample(log[i])
    /\ Help.example = <<>>

\* the index range of the spec of the entry holds the index after idx
ReachesPast(e, idx) ==
    e.kind \in {"Arg", "Flag"} =>
        /\ is_some(e.spec.max_index) => unwrap(e.spec.max_index) > idx
        /\ is_some(e.spec.min_index) => unwrap(e.spec.min_index) <= idx + 1

\* the positions of the matched subcommands in the log
MatchedCmds == {i \in DOMAIN log : log[i].kind = "Cmd" /\ log[i].variant = "Some"}

\* C30: with a matched subcommand in the log the help is that of the last
\* matched one: the usage line starts with `Usage: <app> ... <name>`, and
\* the working log is the log without the entries whose index range ends at
\* or before the subcommand's index and without the positional and
\* subcommand entries logged up to the subcommand's own entry; without a
\* matched subcommand the working log is the log.
C30_SubHelp ==
    EndedUse("help") =>
        IF MatchedCmds = {}
        THEN Help.log = log /\ Help.cmd_name = None
        ELSE LET p == CHOOSE i \in MatchedCmds : \A j \in MatchedCmds : j <= i
                 idx == unwrap(log[p].index)
                 start == bold_underline(<<"Usage:">>, Styled) \o <<" ">>
                              \o bold(app_name, Styled) \o <<" ... ">> \o log[p].spec.name
                 kept == {i \in DOMAIN log :
                             /\ ReachesPast(log[i], idx)
                             /\ log[i].kind \in {"Arg", "Cmd"} => i > p}
             IN  /\ Help.cmd_name = Some(log[p].spec.name)
                 /\ starts_with(Help.usage, start)
                 /\ Help.log = select(log, kept, 1)
                 /\ Len(Help.commands) = Cardinality({i \in kept : log[i].kind = "Cmd"})

\* tests::after_subcommands_help: the sibling subcommand and the matched
\* subcommand are dropped, the argument declared after it is kept
C30_Witness ==
    /\ EndedUse("help")
    /\ ~Styled
    /\ argv = ArgvRun
    /\ Len(log) = 3
    /\ log[1].spec = CmdPut
    /\ log[2].spec = CmdRun
    /\ log[2].index = Some(1)
    /\ log[3].spec = [ArgKey EXCEPT !.min_index = Some(1)]
    /\ Help.log = <<log[3]>>
    /\ Help.commands = <<>>
    /\ Help.usage = <<"Usage:", " ", "<APP_NAME>", " ... ", "r", "u", "n", " <", "K", ">",
                      "\n\n">>

\* the flag bounded by the subcommand's index is dropped, the help flag kept
C30_BoundedFlagReached ==
    /\ EndedUse("help")
    /\ argv = ArgvRun
    /\ Len(log) = 3
    /\ log[1].spec = CmdRun
    /\ log[2].spec = [FlagFoo EXCEPT !.short = None, !.max_index = Some(1)]
    /\ log[3].spec = FlagHelp
    /\ Help.log = <<log[3]>>
    /\ Len(Help.options) = 1


\* the doc lines that the help shows: the first one in summary mode, all of
\* them in full mode
ShownLines(doc) ==
    IF metadata.full_help \/ lines(doc) = <<>> THEN lines(doc) ELSE <<Head(lines(doc))>>

\* the env and default annotations of the spec of an entry, in this order
Annotations(e) ==
    (IF e.kind \in {"Flag", "Opt"} /\ is_some(e.spec.env)
     THEN <<<<"[", "env", ": ", unwrap(e.spec.env), "]">>>> ELSE <<>>)
    \o (IF e.kind \in {"Arg", "Opt"} /\ is_some(e.spec.default)
        THEN <<<<"[", "default", ": ">> \o unwrap(e.spec.default) \o <<"]">>>> ELSE <<>>)

\* the text of an entry: in summary mode one line with the name, the shown
\* doc line and the annotations, each after one blank; in full mode the name
\* on a line of its own, then every shown doc line and every annotation on
\* its own line after four blanks, then an empty line
EntryBlock(e) ==
    LET body == ShownLines(e.spec.doc) \o Annotations(e)
    IN  IF metadata.full_help
        THEN <<"  ">> \o entry_name(e, metadata, Styled) \o <<"\n">>
                 \o flatten([k \in DOMAIN body |->
                                <<" ", " ", " ", " ">> \o body[k] \o <<"\n">>])
                 \o <<"\n">>
        ELSE <<"  ">> \o entry_name(e, metadata, Styled)
                 \o flatten([k \in DOMAIN body |-> <<" ">> \o body[k]])
                 \o <<"\n">>

\* every text of the section is the block of an entry of the kinds
SectionBlocks(section, kinds) ==
    \A k \in DOMAIN section :
        \E i \in DOMAIN Help.log :
            /\ Help.log[i].kind \in kinds
            /\ section[k] = EntryBlock(Help.log[i])

\* the description as it is shown: its shown lines, then an empty line
DescriptionBlock ==
    IF metadata.app_description = <<>> THEN <<>>
    ELSE LET ls == ShownLines(metadata.app_description)
         IN  flatten([k \in DOMAIN ls |-> ls[k] \o <<"\n">>]) \o <<"\n">>

\* C31: in summary mode every entry of the Commands, Arguments and Options
\* sections and the description show the first line of their doc only, the
\* annotations on the same line; in full mode every doc line is shown, each
\* entry as a block of its name and its body.
C31_DocLines ==
    EndedUse("help") =>
        /\ SectionBlocks(Help.commands, {"Cmd"})
        /\ SectionBlocks(Help.arguments, {"Arg"})
        /\ SectionBlocks(Help.options, {"Flag", "Opt"})
        /\ Help.description = DescriptionBlock

\* the Arguments and Options sections and the description do as C31 says
C31_ArgumentsOptionsDescription ==
    EndedUse("help") =>
        /\ SectionBlocks(Help.arguments, {"Arg"})
        /\ SectionBlocks(Help.options, {"Flag", "Opt"})
        /\ Help.description = DescriptionBlock

\* the Commands section does as C31 says in full mode
C31_CommandsFullMode ==
    EndedUse("help") /\ metadata.full_help => SectionBlocks(Help.commands, {"Cmd"})

\* a summary help with a subcommand whose doc has two lines
C31_TwoLineCommandReached ==
    /\ EndedUse("help")
    /\ ~metadata.full_help
    /\ ~Styled
    /\ \E i \in DOMAIN Help.log : Help.log[i].spec = CmdDoc
    /\ Help.commands[1] = <<"  ", "r", "u", "n", " ", "a", " ", "b", "\n">>

\* a summary help with an option whose doc has two lines, an environment
\* variable and a default
C31_OptionReached ==
    /\ EndedUse("help")
    /\ ~metadata.full_help
    /\ ~Styled
    /\ Len(Help.options) = 1
    /\ Help.options[1] = <<"  ", "    --", "b", "a", "r", " <", "VALUE", ">", " ", "a",
                           " ", "[", "env", ": ", "E", "]", " ", "[", "default", ": ",
                           "3", "]", "\n">>


\* a text without the escape sequences of the terminal styles
IsPlainPiece(c) == c \notin {"\\x1B[1m", "\\x1B[4m", "\\x1B[0m"}

Plain(text) == SelectSeq(text, IsPlainPiece)

\* a help without the escape sequences of the terminal styles
PlainHelp(h) ==
    [h EXCEPT !.description = Plain(@), !.usage = Plain(@), !.example = Plain(@),
              !.commands = [k \in DOMAIN @ |-> Plain(@[k])],
              !.arguments = [k \in DOMAIN @ |-> Plain(@[k])],
              !.options = [k \in DOMAIN @ |-> Plain(@[k])]]

Separators == {i \in 0..(Len(argv) - 2) : argv[i + 2] = DashDash}

\* the CliArgs of the run
Cli == unwrap(cli)

IsFlagHit(r) == r.op \in {"version", "help"} /\ r.value = TRUE

IsArgHit(r) == r.op = "arg" /\ r.value.tag = "Ok"

\* C33: with a lone `--` in the argument list of a CliArgs, the first one is
\* consumed from the construction on; the flag takes (version, help) that
\* matched are as many as the consumed slots before it and none of them
\* matched at or after it: the slots consumed after it are those of the
\* positional takes that returned a token, and these tokens are the tokens
\* after the `--`, in ascending order.
C33_SeparatorEndsNamed ==
    (is_some(cli) /\ Separators # {}) =>
        LET sep == first_index(Separators)
            after == [k \in 1..(Len(argv) - 2 - sep) |-> argv[sep + 2 + k]]
            taken == SelectSeq(log, IsArgHit)
        IN  /\ Cli.raw_args[sep] = None
            /\ Len(taken) <= Len(after)
            /\ \A k \in DOMAIN taken : taken[k].value.value = after[k]
            /\ \A i \in DOMAIN Cli.raw_args :
                 i > sep => (Cli.raw_args[i] = None <=> i - sep <= Len(taken))
            /\ Cardinality({i \in DOMAIN Cli.raw_args : i < sep /\ Cli.raw_args[i] = None})
                   = Len(SelectSeq(log, IsFlagHit))

\* tests::version of args.rs: `--version` after the `--` is not a flag, the
\* positional take returns it
C33_Witness ==
    /\ is_some(cli)
    /\ argv = ArgvRunSepVersion
    /\ Len(log) = 2
    /\ log[1].op = "version"
    /\ log[1].value = FALSE
    /\ IsArgHit(log[2])
    /\ log[2].value.value = TokVersion
    /\ Cli.raw_args[0] = Some(TokRun)

\* a flag before the `--` matched, and a second `--` after the first was
\* returned as a positional token
C33_SecondSeparatorReached ==
    /\ is_some(cli)
    /\ argv = ArgvHelpSepSep
    /\ Len(log) = 3
    /\ log[1].op = "help"
    /\ log[1].value = TRUE
    /\ IsArgHit(log[2])
    /\ log[2].value.value = TokLongHelp
    /\ IsArgHit(log[3])
    /\ log[3].value.value = DashDash


\* the slot holds what a short flag match left of a cluster: the dash and
\* some, not all, of the characters that followed it
IsClusterRest(i) ==
    /\ Present(raw_args, i)
    /\ LET rest == unwrap(raw_args[i].value)
       IN  /\ Len(rest) >= 2
           /\ Len(rest) < Len(Original(i))
           /\ starts_with(rest, Dash)
           /\ ~starts_with(rest, DashDash)
           /\ IsSubseq(rest, Original(i))

\* C34 as stated: the slot of every log entry that carries an index is
\* consumed, right after the take and in every later state.
C34_IndexedSlotConsumed ==
    \A k \in DOMAIN log :
        is_some(index_of(log[k])) => ~Present(raw_args, unwrap(index_of(log[k])))

\* C34: the slot of every log entry that carries an index is consumed, right
\* after the take and in every later state, unless the entry is a short flag
\* match: then the slot is consumed or holds the rest of the cluster.
C34_IndexedSlotConsumedOrCluster ==
    \A k \in DOMAIN log :
        is_some(index_of(log[k])) =>
            \/ ~Present(raw_args, unwrap(index_of(log[k])))
            \/ /\ log[k].kind = "Flag"
               /\ log[k].variant = "Short"
               /\ IsClusterRest(unwrap(index_of(log[k])))

\* tests::short_name_flag of flag.rs: f is taken from `-bf`, the slot of the
\* entry holds `-b`
C34_Witness ==
    /\ argv = ArgvCluster
    /\ Len(log) = 1
    /\ log[1].spec = FlagFoo
    /\ log[1].variant = "Short"
    /\ index_of(log[1]) = Some(1)
    /\ raw_args[1].value = Some(<<"-", "b">>)

\* entries of the four kinds with an index, each slot consumed: `--foo=1`,
\* `run` and `--foo=1` taken by an option, a subcommand and a positional
C34_ConsumedReached ==
    /\ argv = ArgvOptCmdOpt
    /\ Len(log) = 3
    /\ log[1].kind = "Opt" /\ index_of(log[1]) = Some(1)
    /\ log[2].kind = "Cmd" /\ index_of(log[2]) = Some(2)
    /\ log[3].kind = "Arg" /\ index_of(log[3]) = Some(3)
    /\ \A i \in DOMAIN raw_args : ~Present(raw_args, i)


\* the slots that the step changes
ChangedSlots == {i \in DOMAIN raw_args : raw_args'[i] # raw_args[i]}

\* the step consumes the slots of S, which were present, and changes no other
ConsumesExactly(S) ==
    /\ ChangedSlots = S
    /\ \A i \in S : Present(raw_args, i) /\ ~Present(raw_args', i)

\* C35: a take changes only the slots it matches.  A positional, subcommand
\* or long flag match consumes exactly its slot; a short flag match modifies
\* exactly its slot; an option match consumes exactly the name slot when the
\* token carries the value (`--name=V`, `-xV`), and the name slot and the
\* slot right after it when the token is the bare name (`--name V`, `-x V`);
\* a take that returns None, Default, Env or Example changes no slot.
C35_TakeFrame ==
    [][IsTake =>
          /\ DOMAIN raw_args' = DOMAIN raw_args
          /\ (Last.kind \in {"Arg", "Cmd"} /\ is_some(index_of(Last)))
                 => ConsumesExactly({unwrap(index_of(Last))})
          /\ (Last.kind = "Flag" /\ Last.variant = "Long")
                 => ConsumesExactly({unwrap(index_of(Last))})
          /\ (Last.kind = "Flag" /\ Last.variant = "Short")
                 => /\ ChangedSlots = {unwrap(index_of(Last))}
                    /\ Present(raw_args, unwrap(index_of(Last)))
          /\ (Last.kind = "Opt" /\ Last.variant \in {"Long", "Short"})
                 => LET i == unwrap(index_of(Last))
                    IN  /\ Present(raw_args, i)
                        /\ IF IsBareName(Last.spec, unwrap(raw_args[i].value))
                           THEN ConsumesExactly({i, i + 1})
                           ELSE ConsumesExactly({i})
          /\ Last.variant \in {"None", "Default", "Env", "Example"}
                 => ChangedSlots = {}]_vars

\* tests::parse_opt of opt.rs with `--foo 1` first: the option took the name
\* slot and the slot after it, the three slots behind them are as they were
C35_Witness ==
    /\ argv = ArgvOptScenario
    /\ Len(log) = 1
    /\ log[1].kind = "Opt"
    /\ log[1].variant = "Long"
    /\ index_of(log[1]) = Some(1)
    /\ log[1].value = TokOne
    /\ ~Present(raw_args, 1)
    /\ ~Present(raw_args, 2)
    /\ \A i \in 3..5 : raw_args[i].value = Some(Original(i))

\* `--foo=1` taken by the option: the name slot alone is consumed
C35_AttachedValueReached ==
    /\ argv = ArgvParseOpt
    /\ Len(log) = 1
    /\ log[1].kind = "Opt"
    /\ log[1].variant = "Long"
    /\ log[1].value = TokOne
    /\ ~Present(raw_args, 1)
    /\ \A i \in 2..4 : raw_args[i].value = Some(Original(i))

\* a take that fell back to the default: every slot is as it was
C35_FallbackReached ==
    /\ argv = ArgvCluster
    /\ Len(log) = 1
    /\ log[1].kind = "Opt"
    /\ log[1].variant = "Default"
    /\ raw_args[1].value = Some(TokShortBF)


\* new is old without its character at position p
WithoutCharAt(old, new, p) ==
    /\ Len(new) = Len(old) - 1
    /\ \A q \in DOMAIN new : new[q] = IF q < p THEN old[q] ELSE old[q + 1]

\* C36: a short flag match is a match on a token that starts with one dash
\* only; it removes the first occurrence after the dash of the short name
\* and no other character, the characters that remain keep their order, and
\* the slot is consumed exactly when the dash alone remains; a flag take
\* changes a token that starts with `--` only as the long name of the flag.
C36_ShortRemovesOne ==
    [][(IsTake /\ Last.kind = "Flag") =>
          /\ Last.variant = "Short" =>
               LET i == unwrap(index_of(Last))
                   old == unwrap(raw_args[i].value)
                   c == unwrap(Last.spec.short)
                   p == CHOOSE q \in 2..Len(old) :
                            old[q] = c /\ \A r \in 2..(q - 1) : old[r] # c
               IN  /\ Present(raw_args, i)
                   /\ starts_with(old, Dash)
                   /\ ~starts_with(old, DashDash)
                   /\ \E q \in 2..Len(old) : old[q] = c
                   /\ IF Len(old) = 2
                      THEN ~Present(raw_args', i)
                      ELSE /\ Present(raw_args', i)
                           /\ WithoutCharAt(old, unwrap(raw_args'[i].value), p)
          /\ \A j \in DOMAIN raw_args :
               (/\ Present(raw_args, j)
                /\ starts_with(unwrap(raw_args[j].value), DashDash)
                /\ raw_args'[j] # raw_args[j])
               => /\ Last.variant = "Long"
                  /\ unwrap(raw_args[j].value) = DashDash \o Last.spec.name]_vars

\* tests::short_name_flag of flag.rs: f taken from `-f` and from `-bf`, the
\* first slot is consumed and the second holds `-b`
C36_Witness ==
    /\ argv = ArgvShortCluster
    /\ Len(log) = 2
    /\ \A k \in DOMAIN log : log[k].spec = FlagFoo /\ log[k].variant = "Short"
    /\ index_of(log[1]) = Some(1)
    /\ index_of(log[2]) = Some(2)
    /\ ~Present(raw_args, 1)
    /\ raw_args[2].value = Some(<<"-", "b">>)

\* f taken once from `-fbf`: the first f is removed, `-bf` is left
C36_FirstOccurrenceReached ==
    /\ argv = <<ProgName, TokShortFBF>>
    /\ Len(log) = 1
    /\ log[1].spec = FlagFoo
    /\ log[1].variant = "Short"
    /\ raw_args[1].value = Some(TokShortBF)

\* b taken on `--fb`: the token is not searched, the flag is absent
C36_LongNotSearchedReached ==
    /\ argv = <<ProgName, TokLongFb>>
    /\ Len(log) = 1
    /\ log[1].spec = FlagBar
    /\ log[1].variant = "None"
    /\ raw_args[1].value = Some(TokLongFb)


\* no present slot of the store is one that the spec of a positional or of
\* an option matches
NoMatchingToken(kind, spec) ==
    IF kind = "Arg"
    THEN \A i \in range_mut(raw_args, spec.min_index, spec.max_index) :
             ~Present(raw_args, i)
    ELSE \A i \in DOMAIN raw_args :
             Present(raw_args, i) => ~NamesOpt(spec, unwrap(raw_args[i].value))

\* the spec has an example and nothing else to fall back to
OnlyExample(kind, spec) ==
    /\ is_some(spec.example)
    /\ ~is_some(spec.default)
    /\ kind = "Opt" => ~is_some(spec.env)

\* C37: in help mode a take of a positional or of an option gives Default
\* if the spec has a default, else Example if it has an example, else None,
\* whatever the tokens and the environment are, and changes no slot; outside
\* help mode it never gives Example, and a spec that has an example only
\* and no matching token is absent.
C37_ExampleOnlyInHelpMode ==
    [][(IsTake /\ Last.kind \in {"Arg", "Opt"}) =>
          /\ metadata.help_mode =>
               /\ Last.variant =
                      IF is_some(Last.spec.default) THEN "Default"
                      ELSE IF is_some(Last.spec.example) THEN "Example"
                      ELSE "None"
               /\ raw_args' = raw_args
          /\ ~metadata.help_mode =>
               /\ Last.variant # "Example"
               /\ (OnlyExample(Last.kind, Last.spec)
                       /\ NoMatchingToken(Last.kind, Last.spec))
                      => Last.variant = "None"]_vars

\* tests::example_arg of arg.rs and tests::example_opt of opt.rs on the
\* token `1`: the positional with an example takes the token outside help
\* mode and the option with an example is absent; in help mode both give
\* the example
C37_Witness ==
    /\ argv = <<ProgName, TokOne>>
    /\ metadata.help_mode
    /\ Len(log) = 3
    /\ log[1].spec = OptFooTen /\ log[1].variant = "None"
    /\ log[2].spec = OptFooTen /\ log[2].variant = "Example"
    /\ log[3].spec = ArgKey /\ log[3].variant = "Example"
    /\ raw_args[1].value = Some(TokOne)

\* outside help mode a positional with an example only and no token left is
\* absent
C37_AbsentReached ==
    /\ argv = <<ProgName>>
    /\ ~metadata.help_mode
    /\ Len(log) = 1
    /\ log[1].spec = ArgKey
    /\ log[1].variant = "None"

\* in help mode the default comes before the example, with the environment
\* variable set and the option on the command line
C37_DefaultFirstReached ==
    /\ argv = ArgvOptScenario
    /\ metadata.help_mode
    /\ EnvSet(OptFooDefault)
    /\ Len(log) = 2
    /\ log[1].spec = OptFooDefault /\ log[1].variant = "Default"
    /\ log[2].spec = ArgSecond /\ log[2].variant = "Default"
    /\ raw_args = RawArgsNew(argv)


\* what a slot holds for the takes: nothing when it is consumed, one unit
\* per character after the dash for a cluster of short names, one unit for
\* any other token
SlotUnits(slot) ==
    IF ~is_some(slot.value) THEN 0
    ELSE LET value == unwrap(slot.value)
         IN  IF starts_with(value, Dash) /\ ~starts_with(value, DashDash) /\ Len(value) >= 2
             THEN Len(value) - 1
             ELSE 1

\* the units of the slots from index i on
RECURSIVE UnitsFrom(_, _)
UnitsFrom(args, i) ==
    IF i \notin DOMAIN args THEN 0 ELSE SlotUnits(args[i]) + UnitsFrom(args, i + 1)

Units(args) == UnitsFrom(args, 0)

LiveEntries == {k \in DOMAIN log : IsLive(log[k])}

\* C38: the loop that takes one spec until it is absent ends.  The live
\* matches of a run are at most as many as the units that the store has
\* lost since the start (a unit is a present slot, or a character of a
\* cluster of short names), because every live match takes at least one
\* unit away and no take adds one; and once a take has returned None,
\* Default, Env or Example, the next take of the same spec returns a
\* result that is not live either.
C38_RepeatedTakesEnd ==
    /\ [](Cardinality(LiveEntries) <= Units(RawArgsNew(argv)) - Units(raw_args))
    /\ [][IsTake =>
             /\ Units(raw_args') <= Units(raw_args)
             /\ IsLive(Last) => Units(raw_args') < Units(raw_args)
             /\ (/\ Len(log) > 0
                 /\ log[Len(log)].kind = Last.kind
                 /\ log[Len(log)].spec = Last.spec
                 /\ log[Len(log)].variant \in {"None", "Default", "Env", "Example"})
                => ~IsLive(Last)]_vars

\* tests::required_arg of arg.rs on one token: the positional is live once,
\* then absent twice, and the store is empty
C38_Witness ==
    /\ argv = <<ProgName, TokOne>>
    /\ Len(log) = 3
    /\ \A k \in DOMAIN log : log[k].spec = ArgAny
    /\ IsLive(log[1])
    /\ log[2].variant = "None"
    /\ log[3].variant = "None"
    /\ Units(raw_args) = 0

\* the cluster `-ff` gives the flag f two live matches, as many as it has
\* flag characters, and the third take is absent
C38_ClusterReached ==
    /\ argv = ArgvRepeatedShort
    /\ Len(log) = 3
    /\ \A k \in DOMAIN log : log[k].spec = FlagFoo
    /\ log[1].variant = "Short"
    /\ log[2].variant = "Short"
    /\ log[3].variant = "None"
    /\ Units(RawArgsNew(argv)) = 2


(***************************************************************************)
(* C39: when an option name is matched in bare form (`--name` or `-x`) and *)
(* the slot that follows is still present, that slot is consumed and its   *)
(* text is the value verbatim, whatever it is, a text that starts with a   *)
(* dash and is the name of another declared flag or option included; no    *)
(* later take matches the slot that gave the value.                        *)
(***************************************************************************)
\* the entry is the match of an option whose token was its bare name
IsBareMatch(t) ==
    /\ t.kind = "Opt" /\ t.variant \in {"Long", "Short"}
    /\ IsBareName(t.spec, Original(unwrap(index_of(t))))

\* the present slots whose token names the option
NamingSlots(spec, args) ==
    {i \in DOMAIN args : Present(args, i) /\ NamesOpt(spec, unwrap(args[i].value))}

\* the first token that names the option is its bare name and the slot
\* after it is present
BareNameBeforePresent(spec, args) ==
    /\ NamingSlots(spec, args) # {}
    /\ IsBareName(spec, unwrap(args[first_index(NamingSlots(spec, args))].value))
    /\ Present(args, first_index(NamingSlots(spec, args)) + 1)

C39_BareNameTakesNextVerbatim ==
    /\ [][(IsTake /\ Last.kind = "Opt" /\ BareNameBeforePresent(Last.spec, raw_args)) =>
              LET i == first_index(NamingSlots(Last.spec, raw_args))
              IN  /\ Last.variant \in {"Long", "Short"}
                  /\ index_of(Last) = Some(i)
                  /\ Last.value = unwrap(raw_args[i + 1].value)]_vars
    /\ [][(IsTake /\ IsBareMatch(Last)) =>
              LET i == unwrap(index_of(Last))
              IN  /\ Present(raw_args, i) /\ Present(raw_args, i + 1)
                  /\ unwrap(raw_args[i].value) = Original(i)
                  /\ Last.value = unwrap(raw_args[i + 1].value)
                  /\ Last.value = Original(i + 1)
                  /\ ConsumesExactly({i, i + 1})]_vars
    /\ [](\A k \in DOMAIN log : \A j \in DOMAIN log :
              (k < j /\ IsBareMatch(log[k]) /\ IsLive(log[j]))
                  => unwrap(index_of(log[j])) # unwrap(index_of(log[k])) + 1)

\* `--foo --bar`: the option foo has the value `--bar`, and the flag bar and
\* the option bar that are taken after it are absent
C39_Witness ==
    /\ argv = ArgvLongFooLongBar
    /\ Len(log) = 3
    /\ log[1].spec = OptFoo /\ log[1].variant = "Long"
    /\ log[1].index = Some(1) /\ log[1].value = TokLongBar
    /\ log[2].spec = FlagBar /\ log[2].kind = "Flag" /\ log[2].variant = "None"
    /\ log[3].spec = OptBar /\ log[3].kind = "Opt" /\ log[3].variant = "None"
    /\ ~Present(raw_args, 1) /\ ~Present(raw_args, 2)

\* `-f -b`: the short name takes the short name of the other option as its
\* value, and the run ends without an unexpected argument
C39_ShortReached ==
    /\ argv = ArgvShortFShortB
    /\ Len(log) = 2
    /\ log[1].spec = OptFoo /\ log[1].variant = "Short"
    /\ log[1].value = TokShortB
    /\ log[2].spec = OptBar /\ log[2].variant = "None"
    /\ Ended("finish") /\ Returned = Ok


(***************************************************************************)
(* C40: when the take of an option yields MissingValue the slot of the     *)
(* option name has been consumed all the same: a later take of the same    *)
(* spec does not report that token again, it falls through to the          *)
(* environment variable, the default or absence, and the check at the end  *)
(* of the run does not report that token as an unexpected argument.        *)
(***************************************************************************)
\* the slots of the command line whose token names the option
NamingTokens(spec) ==
    {i \in 1..(Len(argv) - 1) : NamesOpt(spec, Original(i))}

\* the entry reports a name without a value, and the name is the only token
\* of the command line that names the option
IsOnlyNameMissing(t) ==
    /\ t.variant = "MissingValue"
    /\ Cardinality(NamingTokens(t.spec)) = 1

\* the slot of the only token that names the option
OnlyNameSlot(t) == CHOOSE i \in NamingTokens(t.spec) : TRUE

C40_MissingValueConsumesName ==
    /\ [][(IsTake /\ Last.variant = "MissingValue") =>
              LET i == first_index(NamingSlots(Last.spec, raw_args))
              IN  /\ NamingSlots(Last.spec, raw_args) # {}
                  /\ IsBareName(Last.spec, unwrap(raw_args[i].value))
                  /\ ~Present(raw_args, i + 1)
                  /\ ConsumesExactly({i})]_vars
    /\ [](\A k \in DOMAIN log :
              IsOnlyNameMissing(log[k]) =>
                  /\ ~Present(raw_args, OnlyNameSlot(log[k]))
                  /\ \A j \in DOMAIN log :
                        (k < j /\ log[j].kind = "Opt" /\ log[j].spec = log[k].spec)
                            => /\ log[j].variant \in {"Env", "Default", "None"}
                               /\ log[j].variant = "Env"
                                      <=> EnvSet(log[j].spec)
                               /\ log[j].variant = "Default"
                                      <=> (~EnvSet(log[j].spec)
                                           /\ is_some(log[j].spec.default))
                  /\ (is_some(result) /\ Returned.tag = "Err")
                         => Returned.raw_arg # Some(Original(OnlyNameSlot(log[k]))))

\* `--foo`: the first take reports the name without a value, the second take
\* of the same spec is absent, and the run ends without an error
C40_Witness ==
    /\ argv = ArgvLongFooOnly
    /\ Len(log) = 2
    /\ log[1].spec = OptFoo /\ log[1].variant = "MissingValue"
    /\ log[2].spec = OptFoo /\ log[2].variant = "None"
    /\ ~Present(raw_args, 1)
    /\ Ended("finish") /\ Returned = Ok

\* `1 --foo`: after the name without a value the second take gives the
\* default, and the check names the word, not the consumed name
C40_DefaultReached ==
    /\ argv = <<ProgName, TokOne, TokLongFoo>>
    /\ ~EnvSet(OptFooDefault)
    /\ Len(log) = 2
    /\ log[1].spec = OptFooDefault /\ log[1].variant = "MissingValue"
    /\ log[2].spec = OptFooDefault /\ log[2].variant = "Default"
    /\ Ended("check_unexpected_arg")
    /\ Returned = Err("UnexpectedArg", Some(TokOne))

\* `--foo` with the variable E set: the second take gives the variable
C40_EnvReached ==
    /\ argv = ArgvLongFooOnly
    /\ Len(log) = 2
    /\ log[1].spec = OptFooDefault /\ log[1].variant = "MissingValue"
    /\ log[2].spec = OptFooDefault /\ log[2].variant = "Env"
    /\ log[2].value = <<"1">>

\* `--foo --foo` after the flag foo took the first name: the option finds
\* the second name at the end of the command line, and a further take of
\* the option is absent although the command line names it twice
C40_SecondNameReached ==
    /\ argv = <<ProgName, TokLongFoo, TokLongFoo>>
    /\ Len(log) = 3
    /\ log[1].spec = FlagFoo /\ log[1].index = Some(1)
    /\ log[2].spec = OptFoo /\ log[2].variant = "MissingValue"
    /\ log[3].spec = OptFoo /\ log[3].variant = "None"
    /\ ~Present(raw_args, 2)

====
